---------------------------- MODULE Spec2Model ----------------------------
(***************************************************************************)
(* Model of the RustCrypto MAC engines: the block-cipher MACs (CBC-MAC,    *)
(* Retail-MAC, CMAC, PMAC, BELT-MAC), HMAC and KMAC, each driven through   *)
(* the block buffer (init, update*, finalize).                             *)
(*                                                                         *)
(* Bytes are integers 0..255.  A block is a sequence of BlockSize bytes.   *)
(* The block cipher and the hash are collaborators outside the repository: *)
(* the block cipher is a concrete keyed permutation of blocks, the hash a  *)
(* concrete function of the absorbed byte string.                          *)
(***************************************************************************)
EXTENDS Integers, Sequences, FiniteSets, TLC

\* ------------------------------------------------------------------ bounds
\* Number of distinct cipher keys.
NumKeys == 2
\* Number of message patterns the caller may feed.
NumMsgs == 3
\* Longest message (bytes) passed to a block-cipher MAC.
MaxLen == 34
\* Largest PMAC table size LC_SIZE explored.
MaxLcSize == 3
\* Largest parallel width ParBlocksSize of the cipher backend explored.
MaxPar == 2

\* --------------------------------------------------------------- variables
\* A block-cipher MAC instance (CoreWrapper: a core and its block buffer).
VARIABLES
  alg,          \* which MAC: "cbc", "retail", "cmac", "pmac", "belt", "hmac", "kmac"
  cipher,       \* the key of the core's cipher
  cipher_prime, \* Retail-MAC: the key of the second cipher (0: none)
  state,        \* the running state block (CBC-MAC, Retail-MAC, CMAC, BELT-MAC)
  r,            \* BELT-MAC: Encrypt(zero block)
  pmac_state,   \* PMAC: the PmacState record
  lc_size,      \* PMAC: LC_SIZE (0: none)
  par,          \* PMAC: ParBlocksSize of the cipher backend (0: none)
  buffer,       \* the bytes held by the block buffer; pos = Len(buffer)
  variant,      \* which message the caller feeds
  msg,          \* the bytes passed to update so far
  phase,        \* "active", then "done" after finalize
  out,          \* the tag written by finalize
  nenc,         \* number of encrypt_block calls so far
  ndec,         \* number of decrypt_block calls so far
  nupdate,      \* number of update calls so far, counted up to 2
  panicked,     \* an index or slice went out of range
  hash_bs,      \* HMAC, KMAC: the block size of the hash (0: none)
  hash_os,      \* HMAC, KMAC: the output size of the hash (0: none)
  key,          \* HMAC, KMAC: the key bytes passed to the constructor
  digest,       \* HMAC, KMAC: the bytes absorbed by the core `digest`
  opad_digest,  \* HMAC: the bytes absorbed by the core `opad_digest`
  customisation,\* KMAC: the customisation string passed to the constructor
  reader,       \* KMAC: the bytes absorbed by the sponge that was squeezed
  key_size,     \* the KeySize of the block cipher, where the key is checked
  nreset,       \* number of resets so far
  opad_key,     \* SimpleHmac: the block opad_key
  reader_pos,   \* KMAC reader: number of blocks squeezed so far
  read_buffer,  \* KMAC reader: the squeezed bytes its ReadBuffer still holds
  daa_pos,      \* DAA: the field pos (the other MACs: pos = Len(buffer))
  nread,        \* XOF reader: read calls made so far (saturating at 2)
  fn_in,        \* a function called on its own: the argument
  fn_out,       \* a function called on its own: what it returned
  ipad_digest,  \* HmacResetCore: the inner hash after the ipad block
  ipad_key,     \* SimpleHmacReset: the block ipad_key
  poly1305,     \* Poly1305: the fields r, h, pad, leftover and buffer
  compressed    \* BLAKE2 MAC: the blocks handed to the core so far

cipherVars ==
  <<alg, cipher, cipher_prime, state, r, pmac_state, lc_size, par, buffer,
    variant, msg, phase, out, nenc, ndec, nupdate, panicked>>

hashVars ==
  <<hash_bs, hash_os, key, digest, opad_digest, customisation, reader>>

extVars ==
  <<key_size, nreset, opad_key, reader_pos, read_buffer, daa_pos, nread,
    fn_in, fn_out, ipad_digest, ipad_key, poly1305, compressed>>

\* The fields an instance does not have or has not used.
NoExt ==
  /\ key_size = 0
  /\ nreset = 0
  /\ opad_key = << >>
  /\ reader_pos = 0
  /\ read_buffer = << >>
  /\ daa_pos = 0
  /\ nread = 0
  /\ fn_in = << >>
  /\ fn_out = << >>
  /\ ipad_digest = << >>
  /\ ipad_key = << >>
  /\ poly1305 = << >>
  /\ compressed = << >>

\* ------------------------------------------------------------------- bytes
RECURSIVE XorN(_, _, _)
XorN(a, b, n) ==
  IF n = 0 THEN 0
  ELSE (((a % 2) + (b % 2)) % 2) + 2 * XorN(a \div 2, b \div 2, n - 1)

XorTab == [a \in 0..15 |-> [b \in 0..15 |-> XorN(a, b, 4)]]

\* a ^ b on u8
Xor8(a, b) == 16 * XorTab[a \div 16][b \div 16] + XorTab[a % 16][b % 16]

ZeroBlock(n) == [i \in 1..n |-> 0]

\* fn xor(buf, data): buf[i] ^= data[i]
xor(buf, data) == [i \in 1..Len(buf) |-> Xor8(buf[i], data[i])]

\* block[pos] ^= v  (pos is a 0-based index)
XorAt(block, pos, v) == [block EXCEPT ![pos + 1] = Xor8(@, v)]

\* ------------------------------------------------------------ block cipher
\* The keyed permutation behind encrypt_block: a byte-wise affine map, a
\* running sum over the block and a rotation by one byte.
PrefixSum(s) ==
  LET f[i \in 0..Len(s)] == IF i = 0 THEN 0 ELSE (f[i - 1] + s[i]) % 256
  IN  [i \in 1..Len(s) |-> f[i]]

Encrypt(k, B) ==
  LET n == Len(B)
      s == [i \in 1..n |-> (B[i] * 5 + 17 * k + i) % 256]
      c == PrefixSum(s)
  IN  [i \in 1..n |-> c[(i % n) + 1]]

\* decrypt_block: the inverse permutation.
Decrypt(k, C) ==
  LET n == Len(C)
      c == [j \in 1..n |-> C[((j + n - 2) % n) + 1]]
      s == [i \in 1..n |-> (c[i] + 256 - (IF i = 1 THEN 0 ELSE c[i - 1])) % 256]
  IN  [i \in 1..n |-> (((s[i] + 256 * (k + 1) - 17 * k - i) % 256) * 205) % 256]

\* ------------------------------------------------------------ block buffer
\* The blocks of a byte string whose length is a multiple of bs.
Blocks(bytes, bs) ==
  [i \in 1..(Len(bytes) \div bs) |-> SubSeq(bytes, (i - 1) * bs + 1, i * bs)]

\* BufferKind::split_blocks: (number of whole blocks handed on, leftover).
\* Eager hands on every whole block; Lazy keeps the last block back.
SplitBlocks(kind, bs, input) ==
  LET n  == Len(input)
      nb == IF kind = "Eager" THEN n \div bs
            ELSE IF n = 0 THEN 0
            ELSE IF n % bs = 0 THEN n \div bs - 1
            ELSE n \div bs
  IN  [blocks   |-> Blocks(SubSeq(input, 1, nb * bs), bs),
       leftover |-> SubSeq(input, nb * bs + 1, n)]

\* BlockBuffer::digest_blocks that treats every buffer as eager: a lazy
\* buffer holds back no full block.
DigestBlocksAlwaysEager(kind, bs, buf, input) ==
  LET pos == Len(buf)
      rem == bs - pos
      n   == Len(input)
  IN  IF n < rem
      THEN [buf |-> buf \o input, calls |-> << >>]
      ELSE LET first == IF pos # 0 THEN << <<buf \o SubSeq(input, 1, rem)>> >>
                        ELSE << >>
               rest  == IF pos # 0 THEN SubSeq(input, rem + 1, n) ELSE input
               sp    == SplitBlocks("Eager", bs, rest)
               more  == IF Len(sp.blocks) # 0 THEN <<sp.blocks>> ELSE << >>
           IN  [buf |-> sp.leftover, calls |-> first \o more]

\* BlockBuffer::digest_blocks(input, compress): the buffer holds `buf`
\* (pos = Len(buf)).  Returns the new buffer and the sequence of compress
\* calls, each a sequence of blocks.
DigestBlocks(kind, bs, buf, input) ==
  LET pos == Len(buf)
      rem == bs - pos
      n   == Len(input)
      fits == IF kind = "Eager" THEN n < rem ELSE n <= rem
  IN  IF fits
      THEN [buf |-> buf \o input, calls |-> << >>]
      ELSE LET first == IF pos # 0 THEN << <<buf \o SubSeq(input, 1, rem)>> >>
                        ELSE << >>
               rest  == IF pos # 0 THEN SubSeq(input, rem + 1, n) ELSE input
               sp    == SplitBlocks(kind, bs, rest)
               more  == IF Len(sp.blocks) # 0 THEN <<sp.blocks>> ELSE << >>
           IN  [buf |-> sp.leftover, calls |-> first \o more]

\* BlockBuffer::pad_with_zeros: the buffered bytes followed by zeros.
PadWithZeros(bs, buf) == buf \o ZeroBlock(bs - Len(buf))

\* All blocks of a sequence of compress calls, in order.
RECURSIVE Flatten(_)
Flatten(calls) ==
  IF calls = << >> THEN << >> ELSE Head(calls) \o Flatten(Tail(calls))


\* ---------------------------------------------------------------- doubling
\* The reduction constant of the block size (bytes).
DblConst(n) == CASE n = 8 -> 27 [] n = 16 -> 135 [] n = 32 -> 1061

\* The block read as a big-endian integer, shifted left by one bit.
ShiftLeft(B) ==
  LET n == Len(B)
  IN  [i \in 1..n |->
         ((B[i] * 2) % 256) + (IF i < n THEN B[i + 1] \div 128 ELSE 0)]

\* The block read as a big-endian integer, shifted right by one bit.
ShiftRight(B) ==
  LET n == Len(B)
  IN  [i \in 1..n |->
         (B[i] \div 2) + (IF i > 1 THEN (B[i - 1] % 2) * 128 ELSE 0)]

\* XOR the integer c into the two lowest-order bytes of the block.
XorLow(B, c) ==
  LET n == Len(B)
  IN  [B EXCEPT ![n] = Xor8(@, c % 256), ![n - 1] = Xor8(@, c \div 256)]

\* Dbl::dbl: (block << 1), XORed with the constant when the top bit was 1.
dbl(B) ==
  IF B[1] \div 128 = 1 THEN XorLow(ShiftLeft(B), DblConst(Len(B)))
  ELSE ShiftLeft(B)

\* Dbl::inv_dbl: (block >> 1), XORed with (1 << (b-1)) ^ (C >> 1) when the
\* lowest bit was 1.
inv_dbl(B) ==
  IF B[Len(B)] % 2 = 1
  THEN LET t == XorLow(ShiftRight(B), DblConst(Len(B)) \div 2)
       IN  [t EXCEPT ![1] = Xor8(@, 128)]
  ELSE ShiftRight(B)

RECURSIVE DblTimes(_, _)
DblTimes(B, n) == IF n = 0 THEN B ELSE DblTimes(dbl(B), n - 1)

\* --------------------------------------------------------------- CBC-MAC
\* CbcMacCore::update_blocks: state = Encrypt(state ^ block) per block.
RECURSIVE CbcMacUpdateBlocks(_, _, _)
CbcMacUpdateBlocks(k, st, blocks) ==
  IF blocks = << >> THEN st
  ELSE CbcMacUpdateBlocks(k, Encrypt(k, xor(st, Head(blocks))), Tail(blocks))

\* Mutant of finalize_fixed_core: the tail is encrypted even when pos = 0.
CbcMacFinalizeAlwaysEncrypts(k, st, buf) ==
  LET s2 == Encrypt(k, xor(st, PadWithZeros(Len(st), buf)))
  IN  [state |-> s2, out |-> s2, enc |-> 1, dec |-> 0, panic |-> FALSE]

\* CbcMacCore::finalize_fixed_core.  enc counts the encrypt_block calls.
CbcMacFinalizeCore(k, st, buf) ==
  LET pos == Len(buf)
  IN  IF pos # 0
      THEN LET s2 == Encrypt(k, xor(st, PadWithZeros(Len(st), buf)))
           IN  [state |-> s2, out |-> s2, enc |-> 1, dec |-> 0, panic |-> FALSE]
      ELSE [state |-> st, out |-> st, enc |-> 0, dec |-> 0, panic |-> FALSE]

\* ------------------------------------------------------------- Retail-MAC
\* RetailMacCore::update_blocks: the chaining uses `cipher` only.
RECURSIVE RetailMacUpdateBlocks(_, _, _)
RetailMacUpdateBlocks(k, st, blocks) ==
  IF blocks = << >> THEN st
  ELSE RetailMacUpdateBlocks(k, Encrypt(k, xor(st, Head(blocks))), Tail(blocks))

\* Mutant of finalize_fixed_core: the decrypt / re-encrypt step sits inside
\* the `pos != 0` branch.
RetailMacFinalizeSkipsAligned(k, kprime, st, buf) ==
  LET pos == Len(buf)
  IN  IF pos # 0
      THEN LET s3 == Encrypt(k, Decrypt(kprime,
                       Encrypt(k, xor(st, PadWithZeros(Len(st), buf)))))
           IN  [state |-> s3, out |-> s3, enc |-> 2, dec |-> 1, panic |-> FALSE]
      ELSE [state |-> st, out |-> st, enc |-> 0, dec |-> 0, panic |-> FALSE]

\* RetailMacCore::finalize_fixed_core.
RetailMacFinalizeCore(k, kprime, st, buf) ==
  LET pos == Len(buf)
      s1  == IF pos # 0 THEN Encrypt(k, xor(st, PadWithZeros(Len(st), buf)))
             ELSE st
      s2  == Decrypt(kprime, s1)
      s3  == Encrypt(k, s2)
  IN  [state |-> s3, out |-> s3,
       enc |-> (IF pos # 0 THEN 2 ELSE 1), dec |-> 1, panic |-> FALSE]

\* ------------------------------------------------------------------- CMAC
\* CmacCore::update_blocks.
RECURSIVE CmacUpdateBlocks(_, _, _)
CmacUpdateBlocks(k, st, blocks) ==
  IF blocks = << >> THEN st
  ELSE CmacUpdateBlocks(k, Encrypt(k, xor(st, Head(blocks))), Tail(blocks))

\* Mutant of finalize_fixed_core: key1 is used for a partial tail too.
CmacFinalizeKey1Only(k, st, bb) ==
  LET bs     == Len(st)
      pos    == Len(bb)
      buf    == PadWithZeros(bs, bb)
      key1   == dbl(Encrypt(k, ZeroBlock(bs)))
      s1     == xor(st, buf)
      s2     == IF pos = Len(buf) THEN Encrypt(k, xor(s1, key1))
                ELSE Encrypt(k, xor(XorAt(s1, pos, 128), key1))
  IN  [state |-> s2, out |-> s2, enc |-> 2, dec |-> 0, panic |-> FALSE]

\* CmacCore::finalize_fixed_core.
CmacFinalizeCore(k, st, bb) ==
  LET bs     == Len(st)
      pos    == Len(bb)
      buf    == PadWithZeros(bs, bb)
      subkey == Encrypt(k, ZeroBlock(bs))
      key1   == dbl(subkey)
      s1     == xor(st, buf)
  IN  IF pos = Len(buf)
      THEN LET s2 == Encrypt(k, xor(s1, key1))
           IN  [state |-> s2, out |-> s2, enc |-> 2, dec |-> 0, panic |-> FALSE]
      ELSE LET key2 == dbl(key1)
               s2   == Encrypt(k, xor(XorAt(s1, pos, 128), key2))
           IN  [state |-> s2, out |-> s2, enc |-> 2, dec |-> 0,
                panic |-> ~(pos < bs)]

\* --------------------------------------------------------------- BELT-MAC
\* BeltMacCore::update_blocks.
RECURSIVE BeltMacUpdateBlocks(_, _, _)
BeltMacUpdateBlocks(k, st, blocks) ==
  IF blocks = << >> THEN st
  ELSE BeltMacUpdateBlocks(k, Encrypt(k, xor(st, Head(blocks))), Tail(blocks))

\* BeltMacCore::finalize_fixed_core whose phi1 moves u1 to the last word
\* without XORing u2 into it.
BeltMacFinalizeCoreRotates(k, st, rr, bb) ==
  LET bs   == Len(rr)
      pos  == Len(bb)
      buf0 == PadWithZeros(bs, bb)
  IN  IF pos = bs
      THEN LET new_r == [i \in 1..bs |->
                           IF i <= bs - 4 THEN rr[i + 4]
                           ELSE rr[i - (bs - 4)]]
               o == Encrypt(k, xor(xor(st, buf0), new_r))
           IN  [state |-> st, out |-> o, enc |-> 1, dec |-> 0, panic |-> FALSE]
      ELSE LET buf   == [buf0 EXCEPT ![pos + 1] = 128]
               new_r == [i \in 1..bs |->
                           IF i <= 4 THEN Xor8(rr[i], rr[bs - 4 + i])
                           ELSE rr[i - 4]]
               o == Encrypt(k, xor(xor(st, buf), new_r))
           IN  [state |-> st, out |-> o, enc |-> 1, dec |-> 0,
                panic |-> ~(pos < bs)]

\* BeltMacCore::finalize_fixed_core: the byte-wise phi1 / phi2 of r.
\* self.state is cloned, not written.
BeltMacFinalizeCore(k, st, rr, bb) ==
  LET bs   == Len(rr)
      pos  == Len(bb)
      buf0 == PadWithZeros(bs, bb)
  IN  IF pos = bs
      THEN LET new_r == [i \in 1..bs |->
                           IF i <= bs - 4 THEN rr[i + 4]
                           ELSE Xor8(rr[i - (bs - 4)], rr[4 + i - (bs - 4)])]
               o == Encrypt(k, xor(xor(st, buf0), new_r))
           IN  [state |-> st, out |-> o, enc |-> 1, dec |-> 0, panic |-> FALSE]
      ELSE LET buf   == [buf0 EXCEPT ![pos + 1] = 128]
               new_r == [i \in 1..bs |->
                           IF i <= 4 THEN Xor8(rr[i], rr[bs - 4 + i])
                           ELSE rr[i - 4]]
               o == Encrypt(k, xor(xor(st, buf), new_r))
           IN  [state |-> st, out |-> o, enc |-> 1, dec |-> 0,
                panic |-> ~(pos < bs)]

\* ------------------------------------------------------------------- PMAC
\* usize::trailing_zeros of a non-zero counter.
RECURSIVE trailing_zeros(_)
trailing_zeros(c) ==
  IF c % 2 = 1 THEN 0 ELSE 1 + trailing_zeros(c \div 2)

\* Mutant of next_offset: past the table the last entry is used undoubled.
next_offset_last_entry(ps, lc) ==
  LET ntz == trailing_zeros(ps.counter)
      l   == IF ntz < lc THEN ps.l_cache[ntz + 1] ELSE ps.l_cache[lc]
  IN  [ps EXCEPT !.counter = @ + 1, !.offset = xor(@, l)]

\* PmacState::next_offset: ps is the PmacState record, lc is LC_SIZE.
\* l_cache[i + 1] here is l_cache[i] of the code.
next_offset(ps, lc) ==
  LET ntz == trailing_zeros(ps.counter)
      l   == IF ntz < lc THEN ps.l_cache[ntz + 1]
             ELSE DblTimes(ps.l_cache[lc], ntz - (lc - 1))
  IN  [ps EXCEPT !.counter = @ + 1, !.offset = xor(@, l)]

\* PmacCore::inner_init.
PmacInnerInit(k, bs, lc) ==
  LET l == Encrypt(k, ZeroBlock(bs))
  IN  [counter |-> 1,
       l_inv   |-> inv_dbl(l),
       l_cache |-> [i \in 1..lc |-> DblTimes(l, i - 1)],
       tag     |-> ZeroBlock(bs),
       offset  |-> ZeroBlock(bs)]

\* The one-by-one loop of update_blocks (the remainder of the chunks).
RECURSIVE PmacSeqBlocks(_, _, _, _)
PmacSeqBlocks(k, ps, lc, blocks) ==
  IF blocks = << >> THEN ps
  ELSE LET p1    == next_offset(ps, lc)
           block == Encrypt(k, xor(Head(blocks), p1.offset))
       IN  PmacSeqBlocks(k, [p1 EXCEPT !.tag = xor(@, block)], lc, Tail(blocks))

\* One chunk of ParBlocksSize blocks: mask every block with the next
\* offset, encrypt them together, then XOR them into the tag.
RECURSIVE PmacMaskChunk(_, _, _, _)
PmacMaskChunk(ps, lc, chunk, tmp) ==
  IF chunk = << >> THEN [ps |-> ps, tmp |-> tmp]
  ELSE LET p1 == next_offset(ps, lc)
       IN  PmacMaskChunk(p1, lc, Tail(chunk),
                         Append(tmp, xor(Head(chunk), p1.offset)))

RECURSIVE XorAll(_, _)
XorAll(acc, blocks) ==
  IF blocks = << >> THEN acc ELSE XorAll(xor(acc, Head(blocks)), Tail(blocks))

\* Mutant of the parallel path: every block of a chunk is masked with the
\* offset of the chunk's last block.
PmacParChunkLastOffset(k, ps, lc, chunk) ==
  LET m   == PmacMaskChunk(ps, lc, chunk, << >>)
      enc == [i \in 1..Len(chunk) |-> Encrypt(k, xor(chunk[i], m.ps.offset))]
  IN  [m.ps EXCEPT !.tag = XorAll(@, enc)]

PmacParChunk(k, ps, lc, chunk) ==
  LET m   == PmacMaskChunk(ps, lc, chunk, << >>)
      enc == [i \in 1..Len(chunk) |-> Encrypt(k, m.tmp[i])]
  IN  [m.ps EXCEPT !.tag = XorAll(@, enc)]

\* Mutant of update_blocks: the blocks left over after the chunks of the
\* parallel path are not processed.
RECURSIVE PmacUpdateBlocksDropsRemainder(_, _, _, _, _)
PmacUpdateBlocksDropsRemainder(k, ps, lc, p, blocks) ==
  IF p > 1 /\ Len(blocks) >= p
  THEN PmacUpdateBlocksDropsRemainder(
         k, PmacParChunk(k, ps, lc, SubSeq(blocks, 1, p)),
         lc, p, SubSeq(blocks, p + 1, Len(blocks)))
  ELSE IF p > 1 THEN ps
  ELSE PmacSeqBlocks(k, ps, lc, blocks)

\* PmacCore::update_blocks with a backend of parallel width p.
RECURSIVE PmacUpdateBlocks(_, _, _, _, _)
PmacUpdateBlocks(k, ps, lc, p, blocks) ==
  IF p > 1 /\ Len(blocks) >= p
  THEN PmacUpdateBlocks(k, PmacParChunk(k, ps, lc, SubSeq(blocks, 1, p)),
                        lc, p, SubSeq(blocks, p + 1, Len(blocks)))
  ELSE PmacSeqBlocks(k, ps, lc, blocks)

\* Mutant of finalize_fixed_core: l_inv is left out for a full tail.
PmacFinalizeNoLInv(k, ps, bb) ==
  LET bs  == Len(ps.tag)
      pos == Len(bb)
      buf == PadWithZeros(bs, bb)
      t   == IF pos = Len(buf) THEN xor(ps.tag, buf)
             ELSE xor(XorAt(ps.tag, pos, 128), buf)
  IN  [ps |-> [ps EXCEPT !.tag = t], out |-> Encrypt(k, t),
       enc |-> 1, dec |-> 0, panic |-> FALSE]

\* PmacCore::finalize_fixed_core.
PmacFinalizeCore(k, ps, bb) ==
  LET bs  == Len(ps.tag)
      pos == Len(bb)
      buf == PadWithZeros(bs, bb)
  IN  IF pos = Len(buf)
      THEN LET t == xor(xor(ps.tag, buf), ps.l_inv)
           IN  [ps |-> [ps EXCEPT !.tag = t], out |-> Encrypt(k, t),
                enc |-> 1, dec |-> 0, panic |-> FALSE]
      ELSE LET t == xor(XorAt(ps.tag, pos, 128), buf)
           IN  [ps |-> [ps EXCEPT !.tag = t], out |-> Encrypt(k, t),
                enc |-> 1, dec |-> 0, panic |-> ~(pos < bs)]

\* ------------------------------------------- the block-cipher MAC instance
Algs == {"cbc", "retail", "cmac", "pmac", "belt"}

\* The block size of the cipher each MAC is instantiated with: a 64-bit
\* block cipher, and the 128-bit BelT block cipher for BELT-MAC.
BlockSize(a) == IF a = "belt" THEN 16 ELSE 8

\* BufferKindUser::BufferKind of each core.
BufferKind(a) == IF a \in {"cbc", "retail"} THEN "Eager" ELSE "Lazy"

\* Byte i (1-based) of message v.
MsgByte(v, i) ==
  CASE v = 2 -> (IF i % 8 = 1 THEN 128 ELSE 0)
    [] v = 3 -> 0
    [] OTHER -> (i * (36 + v) + 11 * v) % 256

\* The next n bytes the caller passes to update.
Chunk(n) == [i \in 1..n |-> MsgByte(variant, Len(msg) + i)]

\* inner_init / new_from_slice of the five cores.
InitCipher ==
  \E a \in Algs, k \in 1..NumKeys, k2 \in 0..NumKeys, v \in 1..NumMsgs,
     lc \in 0..MaxLcSize, p \in 0..MaxPar :
    /\ (a = "retail") <=> (k2 # 0)
    /\ (a = "pmac") <=> (lc # 0)
    /\ (a = "pmac") <=> (p # 0)
    /\ alg = a
    /\ cipher = k
    /\ cipher_prime = k2
    /\ state = IF a = "pmac" THEN << >> ELSE ZeroBlock(BlockSize(a))
    /\ r = IF a = "belt" THEN Encrypt(k, ZeroBlock(BlockSize(a))) ELSE << >>
    /\ pmac_state = IF a = "pmac" THEN PmacInnerInit(k, BlockSize(a), lc)
                    ELSE << >>
    /\ lc_size = lc
    /\ par = p
    /\ buffer = << >>
    /\ variant = v
    /\ msg = << >>
    /\ phase = "active"
    /\ out = << >>
    /\ nenc = IF a \in {"pmac", "belt"} THEN 1 ELSE 0
    /\ ndec = 0
    /\ nupdate = 0
    /\ panicked = FALSE
    /\ hash_bs = 0
    /\ hash_os = 0
    /\ key = << >>
    /\ digest = << >>
    /\ opad_digest = << >>
    /\ customisation = << >>
    /\ reader = << >>
    /\ NoExt

NumBlocks(calls) == Len(Flatten(calls))

\* Update::update of CbcMac: buffer.digest_blocks(data, update_blocks).
CbcMacUpdate ==
  /\ alg = "cbc" /\ phase = "active"
  /\ \E n \in 0..(MaxLen - Len(msg)) :
       LET d  == DigestBlocks("Eager", BlockSize(alg), buffer, Chunk(n))
           s1 == IF Len(d.calls) >= 1
                 THEN CbcMacUpdateBlocks(cipher, state, d.calls[1]) ELSE state
           s2 == IF Len(d.calls) >= 2
                 THEN CbcMacUpdateBlocks(cipher, s1, d.calls[2]) ELSE s1
       IN  /\ state' = s2
           /\ buffer' = d.buf
           /\ msg' = msg \o Chunk(n)
           /\ nenc' = nenc + NumBlocks(d.calls)
           /\ nupdate' = IF nupdate < 2 THEN nupdate + 1 ELSE nupdate
  /\ UNCHANGED <<alg, cipher, cipher_prime, r, pmac_state, lc_size, par,
                 variant, phase, out, ndec, panicked>>
  /\ UNCHANGED hashVars
  /\ UNCHANGED extVars

\* FixedOutput::finalize of CbcMac.
CbcMacFinalize ==
  /\ alg = "cbc" /\ phase = "active"
  /\ LET f == CbcMacFinalizeCore(cipher, state, buffer)
     IN  /\ state' = f.state
         /\ out' = f.out
         /\ nenc' = nenc + f.enc
         /\ ndec' = ndec + f.dec
         /\ panicked' = f.panic
  /\ buffer' = << >>
  /\ phase' = "done"
  /\ UNCHANGED <<alg, cipher, cipher_prime, r, pmac_state, lc_size, par,
                 variant, msg, nupdate>>
  /\ UNCHANGED hashVars
  /\ UNCHANGED extVars

\* Update::update of RetailMac.
RetailMacUpdate ==
  /\ alg = "retail" /\ phase = "active"
  /\ \E n \in 0..(MaxLen - Len(msg)) :
       LET d  == DigestBlocks("Eager", BlockSize(alg), buffer, Chunk(n))
           s1 == IF Len(d.calls) >= 1
                 THEN RetailMacUpdateBlocks(cipher, state, d.calls[1]) ELSE state
           s2 == IF Len(d.calls) >= 2
                 THEN RetailMacUpdateBlocks(cipher, s1, d.calls[2]) ELSE s1
       IN  /\ state' = s2
           /\ buffer' = d.buf
           /\ msg' = msg \o Chunk(n)
           /\ nenc' = nenc + NumBlocks(d.calls)
           /\ nupdate' = IF nupdate < 2 THEN nupdate + 1 ELSE nupdate
  /\ UNCHANGED <<alg, cipher, cipher_prime, r, pmac_state, lc_size, par,
                 variant, phase, out, ndec, panicked>>
  /\ UNCHANGED hashVars
  /\ UNCHANGED extVars

\* FixedOutput::finalize of RetailMac.
RetailMacFinalize ==
  /\ alg = "retail" /\ phase = "active"
  /\ LET f == RetailMacFinalizeCore(cipher, cipher_prime, state, buffer)
     IN  /\ state' = f.state
         /\ out' = f.out
         /\ nenc' = nenc + f.enc
         /\ ndec' = ndec + f.dec
         /\ panicked' = f.panic
  /\ buffer' = << >>
  /\ phase' = "done"
  /\ UNCHANGED <<alg, cipher, cipher_prime, r, pmac_state, lc_size, par,
                 variant, msg, nupdate>>
  /\ UNCHANGED hashVars
  /\ UNCHANGED extVars

\* Update::update of Cmac.
CmacUpdate ==
  /\ alg = "cmac" /\ phase = "active"
  /\ \E n \in 0..(MaxLen - Len(msg)) :
       LET d  == DigestBlocks("Lazy", BlockSize(alg), buffer, Chunk(n))
           s1 == IF Len(d.calls) >= 1
                 THEN CmacUpdateBlocks(cipher, state, d.calls[1]) ELSE state
           s2 == IF Len(d.calls) >= 2
                 THEN CmacUpdateBlocks(cipher, s1, d.calls[2]) ELSE s1
       IN  /\ state' = s2
           /\ buffer' = d.buf
           /\ msg' = msg \o Chunk(n)
           /\ nenc' = nenc + NumBlocks(d.calls)
           /\ nupdate' = IF nupdate < 2 THEN nupdate + 1 ELSE nupdate
  /\ UNCHANGED <<alg, cipher, cipher_prime, r, pmac_state, lc_size, par,
                 variant, phase, out, ndec, panicked>>
  /\ UNCHANGED hashVars
  /\ UNCHANGED extVars

\* FixedOutput::finalize of Cmac.
CmacFinalize ==
  /\ alg = "cmac" /\ phase = "active"
  /\ LET f == CmacFinalizeCore(cipher, state, buffer)
     IN  /\ state' = f.state
         /\ out' = f.out
         /\ nenc' = nenc + f.enc
         /\ ndec' = ndec + f.dec
         /\ panicked' = f.panic
  /\ buffer' = << >>
  /\ phase' = "done"
  /\ UNCHANGED <<alg, cipher, cipher_prime, r, pmac_state, lc_size, par,
                 variant, msg, nupdate>>
  /\ UNCHANGED hashVars
  /\ UNCHANGED extVars

\* Update::update of Pmac.
PmacUpdate ==
  /\ alg = "pmac" /\ phase = "active"
  /\ \E n \in 0..(MaxLen - Len(msg)) :
       LET d  == DigestBlocks("Lazy", BlockSize(alg), buffer, Chunk(n))
           s1 == IF Len(d.calls) >= 1
                 THEN PmacUpdateBlocks(cipher, pmac_state, lc_size, par,
                                       d.calls[1])
                 ELSE pmac_state
           s2 == IF Len(d.calls) >= 2
                 THEN PmacUpdateBlocks(cipher, s1, lc_size, par, d.calls[2])
                 ELSE s1
       IN  /\ pmac_state' = s2
           /\ buffer' = d.buf
           /\ msg' = msg \o Chunk(n)
           /\ nenc' = nenc + NumBlocks(d.calls)
           /\ nupdate' = IF nupdate < 2 THEN nupdate + 1 ELSE nupdate
  /\ UNCHANGED <<alg, cipher, cipher_prime, state, r, lc_size, par,
                 variant, phase, out, ndec, panicked>>
  /\ UNCHANGED hashVars
  /\ UNCHANGED extVars

\* FixedOutput::finalize of Pmac.
PmacFinalize ==
  /\ alg = "pmac" /\ phase = "active"
  /\ LET f == PmacFinalizeCore(cipher, pmac_state, buffer)
     IN  /\ pmac_state' = f.ps
         /\ out' = f.out
         /\ nenc' = nenc + f.enc
         /\ ndec' = ndec + f.dec
         /\ panicked' = f.panic
  /\ buffer' = << >>
  /\ phase' = "done"
  /\ UNCHANGED <<alg, cipher, cipher_prime, state, r, lc_size, par,
                 variant, msg, nupdate>>
  /\ UNCHANGED hashVars
  /\ UNCHANGED extVars

\* Update::update of BeltMac.
BeltMacUpdate ==
  /\ alg = "belt" /\ phase = "active"
  /\ \E n \in 0..(MaxLen - Len(msg)) :
       LET d  == DigestBlocks("Lazy", BlockSize(alg), buffer, Chunk(n))
           s1 == IF Len(d.calls) >= 1
                 THEN BeltMacUpdateBlocks(cipher, state, d.calls[1]) ELSE state
           s2 == IF Len(d.calls) >= 2
                 THEN BeltMacUpdateBlocks(cipher, s1, d.calls[2]) ELSE s1
       IN  /\ state' = s2
           /\ buffer' = d.buf
           /\ msg' = msg \o Chunk(n)
           /\ nenc' = nenc + NumBlocks(d.calls)
           /\ nupdate' = IF nupdate < 2 THEN nupdate + 1 ELSE nupdate
  /\ UNCHANGED <<alg, cipher, cipher_prime, r, pmac_state, lc_size, par,
                 variant, phase, out, ndec, panicked>>
  /\ UNCHANGED hashVars
  /\ UNCHANGED extVars

\* FixedOutput::finalize of BeltMac.
BeltMacFinalize ==
  /\ alg = "belt" /\ phase = "active"
  /\ LET f == BeltMacFinalizeCore(cipher, state, r, buffer)
     IN  /\ state' = f.state
         /\ out' = f.out
         /\ nenc' = nenc + f.enc
         /\ ndec' = ndec + f.dec
         /\ panicked' = f.panic
  /\ buffer' = << >>
  /\ phase' = "done"
  /\ UNCHANGED <<alg, cipher, cipher_prime, r, pmac_state, lc_size, par,
                 variant, msg, nupdate>>
  /\ UNCHANGED hashVars
  /\ UNCHANGED extVars

\* -------------------------------------------------------------------- HMAC
\* Bounds of the HMAC instances.
\* Longest key (bytes) passed to an HMAC constructor.
MaxKeyLen == 6
\* Longest message (bytes) passed to an HMAC.
MaxHmacLen == 9
\* Most bytes the hash's finalize_fixed_core leaves in the block buffer.
MaxResidue == 1

\* The hashes D the HMAC is instantiated with: <<block size, output size>>,
\* with an output shorter than, equal to and longer than a block.
HashConfigs == {<<4, 2>>, <<4, 4>>, <<4, 6>>}

IPAD == 54
OPAD == 92

\* Byte i (1-based) of key pattern kv.
KeyByte(kv, i) == IF kv = 2 THEN 0 ELSE (i * 29 + 101 * kv) % 256

\* The bytes of a sequence of blocks, in order.
RECURSIVE Concat(_)
Concat(blocks) ==
  IF Len(blocks) = 0 THEN << >> ELSE Head(blocks) \o Concat(Tail(blocks))

\* D::Core::update_blocks: the core absorbs the blocks.
HashUpdateBlocks(core, blocks) == core \o Concat(blocks)

\* The hash's own padding of the last, partial block.
HashPadTail(bs, tail) ==
  tail \o <<128>> \o ZeroBlock(bs - 1 - Len(tail))

\* The hash's compression, a chaining value folded over the absorbed bytes:
\* acc -> (33 * acc + byte + 1) mod 32749 from 7.  HashAff is the map
\* acc -> m * acc + c of absorbing data[lo..hi], as <<m, c>>.
RECURSIVE HashAff(_, _, _)
HashAff(data, lo, hi) ==
  IF lo > hi THEN <<1, 0>>
  ELSE IF lo = hi THEN <<33, data[lo] + 1>>
  ELSE LET mid == (lo + hi) \div 2
           f   == HashAff(data, lo, mid)
           g   == HashAff(data, mid + 1, hi)
       IN  <<(g[1] * f[1]) % 32749, (g[1] * f[2] + g[2]) % 32749>>

HashAcc(data, n) ==
  LET f == HashAff(data, 1, n) IN (f[1] * 7 + f[2]) % 32749

\* The os output bytes of the hash that absorbed `data`.
HashOut(data, os) ==
  LET a == HashAcc(data, Len(data))
  IN  [j \in 1..os |-> (a * (2 * j + 1) + (a \div 256) + j) % 256]

\* D::Core::finalize_fixed_core(buffer, out): absorbs the padded buffer and
\* writes the digest; the hash decides what it leaves in the buffer
\* (res bytes).
HashFinalizeFixedCore(core, buf, bs, os, res) ==
  LET absorbed == core \o HashPadTail(bs, buf)
  IN  [core |-> absorbed,
       out  |-> HashOut(absorbed, os),
       buf  |-> [i \in 1..res |-> 128]]

\* D::digest(data).
HashDigest(data, bs, os) ==
  LET d == DigestBlocks("Eager", bs, << >>, data)
      c == IF Len(d.calls) >= 1 THEN HashUpdateBlocks(<< >>, d.calls[1])
           ELSE << >>
  IN  HashFinalizeFixedCore(c, d.buf, bs, os, 0).out

\* dst[..n].copy_from_slice(src): panics when n exceeds dst or the lengths
\* differ.
CopyFromSlice(dst, n, src) ==
  IF n > Len(dst) \/ Len(src) # n
  THEN [block |-> dst, panic |-> TRUE]
  ELSE [block |-> [i \in 1..Len(dst) |-> IF i <= n THEN src[i] ELSE dst[i]],
        panic |-> FALSE]

\* get_der_key without the branch for a digest longer than a block.
get_der_key_no_truncation(k, bs, os) ==
  LET der_key == ZeroBlock(bs)
  IN  IF Len(k) <= Len(der_key)
      THEN CopyFromSlice(der_key, Len(k), k)
      ELSE LET hash == HashDigest(k, bs, os)
           IN  CopyFromSlice(der_key, Len(hash), hash)

\* get_der_key(key).
get_der_key(k, bs, os) ==
  LET der_key == ZeroBlock(bs)
  IN  IF Len(k) <= Len(der_key)
      THEN CopyFromSlice(der_key, Len(k), k)
      ELSE LET hash == HashDigest(k, bs, os)
           IN  IF Len(hash) <= Len(der_key)
               THEN CopyFromSlice(der_key, Len(hash), hash)
               ELSE LET n == Len(der_key)
                    IN  CopyFromSlice(der_key, n, SubSeq(hash, 1, n))

\* buf.iter_mut().for_each(|b| *b ^= c)
XorEach(buf, c) == [i \in 1..Len(buf) |-> Xor8(buf[i], c)]

\* HmacCore::new_from_slice(key).
HmacNewFromSlice(k, bs, os) ==
  LET d    == get_der_key(k, bs, os)
      buf1 == XorEach(d.block, IPAD)
      buf2 == XorEach(buf1, Xor8(IPAD, OPAD))
  IN  [digest      |-> HashUpdateBlocks(<< >>, <<buf1>>),
       opad_digest |-> HashUpdateBlocks(<< >>, <<buf2>>),
       panic       |-> d.panic]

\* HmacCore::update_blocks(blocks).
HmacUpdateBlocks(dg, blocks) == HashUpdateBlocks(dg, blocks)

\* HmacCore::finalize_fixed_core without the explicit buffer.reset().
HmacFinalizeNoReset(dg, od, bb, bs, os, res) ==
  LET inner == HashFinalizeFixedCore(dg, bb, bs, os, res)
      d     == DigestBlocks("Eager", bs, inner.buf, inner.out)
      h1    == IF Len(d.calls) >= 1 THEN HashUpdateBlocks(od, d.calls[1])
               ELSE od
      h2    == IF Len(d.calls) >= 2 THEN HashUpdateBlocks(h1, d.calls[2])
               ELSE h1
      outer == HashFinalizeFixedCore(h2, d.buf, bs, os, res)
  IN  [digest |-> inner.core, opad_digest |-> outer.core,
       buffer |-> outer.buf, out |-> outer.out]

\* HmacCore::finalize_fixed_core(buffer, out).
HmacFinalizeCore(dg, od, bb, bs, os, res) ==
  LET inner == HashFinalizeFixedCore(dg, bb, bs, os, res)
      reset == << >>
      d     == DigestBlocks("Eager", bs, reset, inner.out)
      h1    == IF Len(d.calls) >= 1 THEN HashUpdateBlocks(od, d.calls[1])
               ELSE od
      h2    == IF Len(d.calls) >= 2 THEN HashUpdateBlocks(h1, d.calls[2])
               ELSE h1
      outer == HashFinalizeFixedCore(h2, d.buf, bs, os, res)
  IN  [digest |-> inner.core, opad_digest |-> outer.core,
       buffer |-> outer.buf, out |-> outer.out]

\* The fields of the block-cipher MACs, unused by HMAC and KMAC.
NoCipher ==
  /\ cipher = 0
  /\ cipher_prime = 0
  /\ state = << >>
  /\ r = << >>
  /\ pmac_state = << >>
  /\ lc_size = 0
  /\ par = 0
  /\ nenc = 0
  /\ ndec = 0

\* Hmac::new_from_slice(key) for a hash D.
InitHmac ==
  \E cfg \in HashConfigs, klen \in 0..MaxKeyLen, kv \in 1..NumKeys,
     v \in 1..NumMsgs :
    LET k  == [i \in 1..klen |-> KeyByte(kv, i)]
        nf == HmacNewFromSlice(k, cfg[1], cfg[2])
    IN  /\ alg = "hmac"
        /\ NoCipher
        /\ NoExt
        /\ hash_bs = cfg[1]
        /\ hash_os = cfg[2]
        /\ key = k
        /\ digest = nf.digest
        /\ opad_digest = nf.opad_digest
        /\ customisation = << >>
        /\ reader = << >>
        /\ buffer = << >>
        /\ variant = v
        /\ msg = << >>
        /\ phase = IF nf.panic THEN "panicked" ELSE "active"
        /\ out = << >>
        /\ nupdate = 0
        /\ panicked = nf.panic

\* Update::update of Hmac: buffer.digest_blocks(data, update_blocks).
HmacUpdate ==
  /\ alg = "hmac" /\ phase = "active"
  /\ \E n \in 0..(MaxHmacLen - Len(msg)) :
       LET d  == DigestBlocks("Eager", hash_bs, buffer, Chunk(n))
           s1 == IF Len(d.calls) >= 1
                 THEN HmacUpdateBlocks(digest, d.calls[1]) ELSE digest
           s2 == IF Len(d.calls) >= 2
                 THEN HmacUpdateBlocks(s1, d.calls[2]) ELSE s1
       IN  /\ digest' = s2
           /\ buffer' = d.buf
           /\ msg' = msg \o Chunk(n)
           /\ nupdate' = IF nupdate < 2 THEN nupdate + 1 ELSE nupdate
  /\ UNCHANGED <<alg, variant, phase, out, panicked, hash_bs, hash_os, key,
                 opad_digest, customisation, reader>>
  /\ UNCHANGED <<cipher, cipher_prime, state, r, pmac_state, lc_size, par,
                 nenc, ndec>>
  /\ UNCHANGED extVars

\* FixedOutput::finalize of Hmac.
HmacFinalize ==
  /\ alg = "hmac" /\ phase = "active"
  /\ \E res \in 0..MaxResidue :
       LET f == HmacFinalizeCore(digest, opad_digest, buffer, hash_bs,
                                 hash_os, res)
       IN  /\ digest' = f.digest
           /\ opad_digest' = f.opad_digest
           /\ buffer' = f.buffer
           /\ out' = f.out
  /\ phase' = "done"
  /\ UNCHANGED <<alg, variant, msg, nupdate, panicked, hash_bs, hash_os, key,
                 customisation, reader>>
  /\ UNCHANGED <<cipher, cipher_prime, state, r, pmac_state, lc_size, par,
                 nenc, ndec>>
  /\ UNCHANGED extVars

\* -------------------------------------------------------------------- KMAC
\* Key, chunk and output lengths explored lie within this distance of 0 and
\* of the block boundary.
KmacSpread == 2

\* Block sizes (rates) of the cSHAKE cores: Kmac128 and Kmac256.
KmacRates == {168, 136}

\* OutputSize of KmacCore<CShake128> and KmacCore<CShake256>.
KmacOutputSize(bs) == IF bs = 168 THEN 32 ELSE 64

Customisations == {<< >>, <<77, 121>>}

\* b"KMAC"
FUNCTION_NAME == <<75, 77, 65, 67>>

RECURSIVE BitLen(_)
BitLen(n) == IF n = 0 THEN 0 ELSE 1 + BitLen(n \div 2)

\* num_encoding_size(num): ceil(bits / 8), bits = 64 - leading_zeros(num | 1)
num_encoding_size(num) ==
  LET bits == BitLen(IF num % 2 = 0 THEN num + 1 ELSE num)
  IN  (bits + 7) \div 8

\* num >> (8 * e)
RECURSIVE ShiftRightBytes(_, _)
ShiftRightBytes(num, e) ==
  IF e = 0 THEN num ELSE ShiftRightBytes(num \div 256, e - 1)

\* u64::to_be_bytes
to_be_bytes(num) == [i \in 1..8 |-> ShiftRightBytes(num, 8 - i) % 256]

\* left_encode(num, buffer)
left_encode(num) ==
  LET encoding_size == num_encoding_size(num)
  IN  <<encoding_size>> \o SubSeq(to_be_bytes(num), 8 - encoding_size + 1, 8)

\* right_encode(num, buffer)
right_encode(num) ==
  LET encoding_size == num_encoding_size(num)
  IN  SubSeq(to_be_bytes(num), 8 - encoding_size + 1, 8) \o <<encoding_size>>

\* The core absorbs the blocks of the compress calls of one digest_blocks.
Absorb(core, calls) == HashUpdateBlocks(core, Flatten(calls))

\* CShake::new_cshake(customization): the cSHAKE core that absorbed
\* bytepad(encode_string("KMAC") || encode_string(S), rate).
new_cshake(s, bs) ==
  LET d1 == DigestBlocks("Eager", bs, << >>, left_encode(bs))
      c1 == Absorb(<< >>, d1.calls)
      d2 == DigestBlocks("Eager", bs, d1.buf,
                         left_encode(8 * Len(FUNCTION_NAME)) \o FUNCTION_NAME)
      c2 == Absorb(c1, d2.calls)
      d3 == DigestBlocks("Eager", bs, d2.buf, left_encode(8 * Len(s)) \o s)
      c3 == Absorb(c2, d3.calls)
  IN  HashUpdateBlocks(c3, <<PadWithZeros(bs, d3.buf)>>)

\* KmacCore::new_customization(key, customisation).
KmacNewCustomization(k, s, bs) ==
  LET digest0 == new_cshake(s, bs)
      d1 == DigestBlocks("Eager", bs, << >>, left_encode(bs))
      c1 == Absorb(digest0, d1.calls)
      d2 == DigestBlocks("Eager", bs, d1.buf, left_encode(8 * Len(k)))
      c2 == Absorb(c1, d2.calls)
      d3 == DigestBlocks("Eager", bs, d2.buf, k)
      c3 == Absorb(c2, d3.calls)
  IN  HashUpdateBlocks(c3, <<PadWithZeros(bs, d3.buf)>>)

\* KmacCore::update_blocks(blocks).
KmacUpdateBlocks(dg, blocks) == HashUpdateBlocks(dg, blocks)

\* cSHAKE's padding of the last, partial block: the domain byte 0x04 at the
\* fill position, 0x80 OR-ed into the last byte.
CShakePadTail(bs, tail) ==
  IF Len(tail) = bs - 1 THEN tail \o <<132>>
  ELSE tail \o <<4>> \o ZeroBlock(bs - 2 - Len(tail)) \o <<128>>

\* D::Core::finalize_xof_core(buffer): the sponge absorbs the padded buffer;
\* the reader squeezes the sponge that absorbed `input`.
HashFinalizeXofCore(core, buf, bs) ==
  [input |-> core \o CShakePadTail(bs, buf)]

\* Byte j (1-based) of the stream squeezed from the sponge with accumulator
\* a; the squeeze is not linear in a, so that two sponges whose inputs
\* differ in a known way have unrelated output bytes.
XofByte(a, j) == ((((a + j) * (a + j)) \div 251) + a) % 256

\* XofReaderCore::read_block, the b-th call (1-based).
ReadBlock(input, bs, b) ==
  LET a == HashAcc(input, Len(input))
  IN  [j \in 1..bs |-> XofByte(a, (b - 1) * bs + j)]

\* The loop of finalize_core: out[pos..pos + to_copy] = block[..to_copy].
RECURSIVE FinalizeLoop(_, _, _, _, _)
FinalizeLoop(input, bs, outlen, pos, o) ==
  IF pos < outlen
  THEN LET block   == ReadBlock(input, bs, (pos \div bs) + 1)
           to_copy == IF outlen - pos < Len(block) THEN outlen - pos
                      ELSE Len(block)
       IN  FinalizeLoop(input, bs, outlen, pos + to_copy,
                        o \o SubSeq(block, 1, to_copy))
  ELSE o

\* KmacCore::finalize_core that works on a copy of the core and of the
\* buffer and leaves the instance as it was.
KmacFinalizeCoreOnCopy(dg, bb, bs, outlen) ==
  LET d  == DigestBlocks("Eager", bs, bb, right_encode(8 * outlen))
      c  == Absorb(dg, d.calls)
      rd == HashFinalizeXofCore(c, d.buf, bs)
  IN  [digest |-> dg, buffer |-> bb, reader |-> rd.input,
       out |-> FinalizeLoop(rd.input, bs, outlen, 0, << >>)]

\* KmacCore::finalize_core with right_encode(0), as finalize_xof_core does.
KmacFinalizeCoreZeroLength(dg, bb, bs, outlen) ==
  LET d  == DigestBlocks("Eager", bs, bb, right_encode(0))
      c  == Absorb(dg, d.calls)
      rd == HashFinalizeXofCore(c, d.buf, bs)
  IN  [digest |-> rd.input, buffer |-> << >>, reader |-> rd.input,
       out |-> FinalizeLoop(rd.input, bs, outlen, 0, << >>)]

\* KmacCore::finalize_core(buffer, out), out holding outlen bytes.
KmacFinalizeCore(dg, bb, bs, outlen) ==
  LET d  == DigestBlocks("Eager", bs, bb, right_encode(8 * outlen))
      c  == Absorb(dg, d.calls)
      rd == HashFinalizeXofCore(c, d.buf, bs)
  IN  [digest |-> rd.input, buffer |-> << >>, reader |-> rd.input,
       out |-> FinalizeLoop(rd.input, bs, outlen, 0, << >>)]

\* Key lengths explored: short keys and keys around the length whose
\* framing ends on the block boundary.
KmacKeyLens(bs) ==
  (0..KmacSpread) \cup ((bs - 5 - KmacSpread)..(bs - 5 + KmacSpread))

\* Message lengths explored: short messages and messages around one block.
KmacMsgLens(bs) == (0..KmacSpread) \cup ((bs - 1)..(bs + KmacSpread))

\* Output lengths passed to finalize_into; the Mac trait's finalize passes
\* OutputSize.
KmacOutLens(bs) == (0..KmacSpread) \cup {KmacOutputSize(bs)}

\* Kmac128 / Kmac256 ::new_customization(key, customisation).
InitKmac ==
  \E bs \in KmacRates, s \in Customisations, v \in {1} :
    \E klen \in KmacKeyLens(bs) :
      LET k == [i \in 1..klen |-> KeyByte(1, i)]
      IN  /\ alg = "kmac"
          /\ NoCipher
          /\ NoExt
          /\ hash_bs = bs
          /\ hash_os = KmacOutputSize(bs)
          /\ key = k
          /\ digest = KmacNewCustomization(k, s, bs)
          /\ opad_digest = << >>
          /\ customisation = s
          /\ reader = << >>
          /\ buffer = << >>
          /\ variant = v
          /\ msg = << >>
          /\ phase = "active"
          /\ out = << >>
          /\ nupdate = 0
          /\ panicked = FALSE

\* Update::update of Kmac: buffer.digest_blocks(data, update_blocks).
KmacUpdate ==
  /\ alg = "kmac" /\ phase = "active"
  /\ \E n \in 0..(hash_bs + KmacSpread) :
       /\ Len(msg) + n \in KmacMsgLens(hash_bs)
       /\ LET d == DigestBlocks("Eager", hash_bs, buffer, Chunk(n))
              s1 == IF Len(d.calls) >= 1
                    THEN KmacUpdateBlocks(digest, d.calls[1]) ELSE digest
              s2 == IF Len(d.calls) >= 2
                    THEN KmacUpdateBlocks(s1, d.calls[2]) ELSE s1
          IN  /\ digest' = s2
              /\ buffer' = d.buf
              /\ msg' = msg \o Chunk(n)
              /\ nupdate' = IF nupdate < 2 THEN nupdate + 1 ELSE nupdate
  /\ UNCHANGED <<alg, variant, phase, out, panicked, hash_bs, hash_os, key,
                 opad_digest, customisation, reader>>
  /\ UNCHANGED <<cipher, cipher_prime, state, r, pmac_state, lc_size, par,
                 nenc, ndec>>
  /\ UNCHANGED extVars

\* Kmac128 / Kmac256 ::finalize_into(out), out holding outlen bytes.
KmacFinalizeInto ==
  /\ alg = "kmac" /\ phase = "active"
  /\ \E outlen \in KmacOutLens(hash_bs) :
       LET f == KmacFinalizeCore(digest, buffer, hash_bs, outlen)
       IN  /\ digest' = f.digest
           /\ buffer' = f.buffer
           /\ reader' = f.reader
           /\ out' = f.out
  /\ phase' = "done"
  /\ UNCHANGED <<alg, variant, msg, nupdate, panicked, hash_bs, hash_os, key,
                 opad_digest, customisation>>
  /\ UNCHANGED <<cipher, cipher_prime, state, r, pmac_state, lc_size, par,
                 nenc, ndec>>
  /\ UNCHANGED extVars

\* ------------------------------------------------ Retail-MAC construction
\* Longest key (bytes) passed to RetailMac::new_from_slice.
MaxRetailKeyLen == 7
\* Largest KeySize of the block cipher explored.
MaxCipherKeySize == 3

RECURSIVE KeySum(_, _)
KeySum(bytes, i) ==
  IF i = 0 THEN 0 ELSE (KeySum(bytes, i - 1) + bytes[i] * (2 * i - 1)) % 251

\* The key the cipher keeps for the key bytes.
KeyId(bytes) == 1 + KeySum(bytes, Len(bytes))

\* C::new_from_slice(key): InvalidLength unless key.len() is the KeySize.
CipherNewFromSlice(bytes, ks) ==
  IF Len(bytes) = ks THEN [ok |-> TRUE, k |-> KeyId(bytes)]
  ELSE [ok |-> FALSE, k |-> 0]

\* RetailMacCore::new_from_slice that does not check the second half.
RetailMacNewFromSliceFirstHalfOnly(k, ks, bs) ==
  LET c1 == CipherNewFromSlice(SubSeq(k, 1, Len(k) \div 2), ks)
      c2 == CipherNewFromSlice(SubSeq(k, (Len(k) \div 2) + 1, Len(k)), ks)
  IN  IF ~c1.ok
      THEN [ok |-> FALSE, cipher |-> 0, cipher_prime |-> 0, state |-> << >>]
      ELSE [ok |-> TRUE, cipher |-> c1.k, cipher_prime |-> c2.k,
            state |-> ZeroBlock(bs)]

\* RetailMacCore::new_from_slice(key); each `?` returns the error at once.
RetailMacNewFromSlice(k, ks, bs) ==
  LET c1 == CipherNewFromSlice(SubSeq(k, 1, Len(k) \div 2), ks)
      c2 == CipherNewFromSlice(SubSeq(k, (Len(k) \div 2) + 1, Len(k)), ks)
  IN  IF ~c1.ok
      THEN [ok |-> FALSE, cipher |-> 0, cipher_prime |-> 0, state |-> << >>]
      ELSE IF ~c2.ok
      THEN [ok |-> FALSE, cipher |-> 0, cipher_prime |-> 0, state |-> << >>]
      ELSE [ok |-> TRUE, cipher |-> c1.k, cipher_prime |-> c2.k,
            state |-> ZeroBlock(bs)]

\* A caller about to construct a RetailMac from key bytes.
InitRetailNew ==
  \E klen \in 0..MaxRetailKeyLen, kv \in 1..NumKeys, v \in 1..NumMsgs,
     ks \in 1..MaxCipherKeySize :
    /\ alg = "retail"
    /\ cipher = 0
    /\ cipher_prime = 0
    /\ state = << >>
    /\ r = << >>
    /\ pmac_state = << >>
    /\ lc_size = 0
    /\ par = 0
    /\ buffer = << >>
    /\ variant = v
    /\ msg = << >>
    /\ phase = "new"
    /\ out = << >>
    /\ nenc = 0
    /\ ndec = 0
    /\ nupdate = 0
    /\ panicked = FALSE
    /\ hash_bs = 0
    /\ hash_os = 0
    /\ key = [i \in 1..klen |-> KeyByte(kv, i)]
    /\ digest = << >>
    /\ opad_digest = << >>
    /\ customisation = << >>
    /\ reader = << >>
    /\ key_size = ks
    /\ nreset = 0
    /\ opad_key = << >>
    /\ reader_pos = 0
    /\ read_buffer = << >>
    /\ daa_pos = 0
    /\ nread = 0
    /\ fn_in = << >>
    /\ fn_out = << >>
    /\ ipad_digest = << >>
    /\ ipad_key = << >>
    /\ poly1305 = << >>
    /\ compressed = << >>

\* KeyInit::new_from_slice of RetailMac: Ok(instance) or Err(InvalidLength).
RetailMacNew ==
  /\ alg = "retail" /\ phase = "new"
  /\ LET n == RetailMacNewFromSlice(key, key_size, BlockSize(alg))
     IN  /\ cipher' = n.cipher
         /\ cipher_prime' = n.cipher_prime
         /\ state' = n.state
         /\ phase' = IF n.ok THEN "active" ELSE "error"
  /\ UNCHANGED <<alg, r, pmac_state, lc_size, par, buffer, variant, msg, out,
                 nenc, ndec, nupdate, panicked>>
  /\ UNCHANGED hashVars
  /\ UNCHANGED extVars

\* ------------------------------------------------------------------- reset
\* Resets counted per instance.
MaxResets == 1

\* Reset::reset of CbcMacCore, RetailMacCore, CmacCore and BeltMacCore:
\* self.state = Default::default().
StateReset(st) == ZeroBlock(Len(st))

\* PmacCore::reset that leaves the counter as it is.
PmacResetKeepsCounter(ps) ==
  [ps EXCEPT !.tag = ZeroBlock(Len(ps.tag)),
             !.offset = ZeroBlock(Len(ps.offset))]

\* Reset::reset of PmacCore.
PmacReset(ps) ==
  [ps EXCEPT !.tag = ZeroBlock(Len(ps.tag)),
             !.offset = ZeroBlock(Len(ps.offset)),
             !.counter = 1]

\* Keyed instances of the five MACs that will be reset.
InitReset ==
  /\ InitCipher
  /\ cipher = 1
  /\ variant = 1

\* FixedOutputReset::finalize_into_reset of CbcMac:
\* core.finalize_fixed_core(buffer, out); core.reset(); buffer.reset().
CbcMacFinalizeReset ==
  /\ alg = "cbc" /\ phase = "active"
  /\ LET f == CbcMacFinalizeCore(cipher, state, buffer)
     IN  /\ state' = StateReset(f.state)
         /\ out' = f.out
         /\ nenc' = nenc + f.enc
         /\ ndec' = ndec + f.dec
         /\ panicked' = f.panic
  /\ buffer' = << >>
  /\ phase' = "reset"
  /\ nreset' = IF nreset < MaxResets THEN nreset + 1 ELSE nreset
  /\ UNCHANGED <<alg, cipher, cipher_prime, r, pmac_state, lc_size, par,
                 variant, msg, nupdate>>
  /\ UNCHANGED hashVars
  /\ UNCHANGED <<key_size, opad_key, reader_pos, read_buffer, daa_pos, nread,
                 fn_in, fn_out,
                 ipad_digest, ipad_key, poly1305, compressed>>

\* FixedOutputReset::finalize_into_reset of RetailMac.
RetailMacFinalizeReset ==
  /\ alg = "retail" /\ phase = "active"
  /\ LET f == RetailMacFinalizeCore(cipher, cipher_prime, state, buffer)
     IN  /\ state' = StateReset(f.state)
         /\ out' = f.out
         /\ nenc' = nenc + f.enc
         /\ ndec' = ndec + f.dec
         /\ panicked' = f.panic
  /\ buffer' = << >>
  /\ phase' = "reset"
  /\ nreset' = IF nreset < MaxResets THEN nreset + 1 ELSE nreset
  /\ UNCHANGED <<alg, cipher, cipher_prime, r, pmac_state, lc_size, par,
                 variant, msg, nupdate>>
  /\ UNCHANGED hashVars
  /\ UNCHANGED <<key_size, opad_key, reader_pos, read_buffer, daa_pos, nread,
                 fn_in, fn_out,
                 ipad_digest, ipad_key, poly1305, compressed>>

\* FixedOutputReset::finalize_into_reset of Cmac.
CmacFinalizeReset ==
  /\ alg = "cmac" /\ phase = "active"
  /\ LET f == CmacFinalizeCore(cipher, state, buffer)
     IN  /\ state' = StateReset(f.state)
         /\ out' = f.out
         /\ nenc' = nenc + f.enc
         /\ ndec' = ndec + f.dec
         /\ panicked' = f.panic
  /\ buffer' = << >>
  /\ phase' = "reset"
  /\ nreset' = IF nreset < MaxResets THEN nreset + 1 ELSE nreset
  /\ UNCHANGED <<alg, cipher, cipher_prime, r, pmac_state, lc_size, par,
                 variant, msg, nupdate>>
  /\ UNCHANGED hashVars
  /\ UNCHANGED <<key_size, opad_key, reader_pos, read_buffer, daa_pos, nread,
                 fn_in, fn_out,
                 ipad_digest, ipad_key, poly1305, compressed>>

\* FixedOutputReset::finalize_into_reset of Pmac.
PmacFinalizeReset ==
  /\ alg = "pmac" /\ phase = "active"
  /\ LET f == PmacFinalizeCore(cipher, pmac_state, buffer)
     IN  /\ pmac_state' = PmacReset(f.ps)
         /\ out' = f.out
         /\ nenc' = nenc + f.enc
         /\ ndec' = ndec + f.dec
         /\ panicked' = f.panic
  /\ buffer' = << >>
  /\ phase' = "reset"
  /\ nreset' = IF nreset < MaxResets THEN nreset + 1 ELSE nreset
  /\ UNCHANGED <<alg, cipher, cipher_prime, state, r, lc_size, par,
                 variant, msg, nupdate>>
  /\ UNCHANGED hashVars
  /\ UNCHANGED <<key_size, opad_key, reader_pos, read_buffer, daa_pos, nread,
                 fn_in, fn_out,
                 ipad_digest, ipad_key, poly1305, compressed>>

\* FixedOutputReset::finalize_into_reset of BeltMac.
BeltMacFinalizeReset ==
  /\ alg = "belt" /\ phase = "active"
  /\ LET f == BeltMacFinalizeCore(cipher, state, r, buffer)
     IN  /\ state' = StateReset(f.state)
         /\ out' = f.out
         /\ nenc' = nenc + f.enc
         /\ ndec' = ndec + f.dec
         /\ panicked' = f.panic
  /\ buffer' = << >>
  /\ phase' = "reset"
  /\ nreset' = IF nreset < MaxResets THEN nreset + 1 ELSE nreset
  /\ UNCHANGED <<alg, cipher, cipher_prime, r, pmac_state, lc_size, par,
                 variant, msg, nupdate>>
  /\ UNCHANGED hashVars
  /\ UNCHANGED <<key_size, opad_key, reader_pos, read_buffer, daa_pos, nread,
                 fn_in, fn_out,
                 ipad_digest, ipad_key, poly1305, compressed>>

\* The caller keeps the tag and turns to the next message: what was
\* observed of the previous message (msg, out and the call counts) restarts.
NextMessage ==
  /\ alg \in Algs /\ phase = "reset"
  /\ phase' = "active"
  /\ msg' = << >>
  /\ out' = << >>
  /\ nenc' = IF alg \in {"pmac", "belt"} THEN 1 ELSE 0
  /\ ndec' = 0
  /\ nupdate' = 0
  /\ UNCHANGED <<alg, cipher, cipher_prime, state, r, pmac_state, lc_size,
                 par, buffer, variant, panicked>>
  /\ UNCHANGED hashVars
  /\ UNCHANGED extVars

\* --------------------------------------------------------------------- DAA
\* Longest message (bytes) passed to a Daa instance.
MaxDaaLen == 25

\* for (a, b) in self.buffer[pos..].iter_mut().zip(data) { *a ^= *b }
DaaXorInto(buf, p, data) ==
  [i \in 1..Len(buf) |->
     IF i > p /\ i - p <= Len(data) THEN Xor8(buf[i], data[i - p])
     ELSE buf[i]]

\* while data.len() >= n { encrypt_block(buffer); buffer ^= first n bytes }
RECURSIVE DaaWhile(_, _, _, _)
DaaWhile(k, buf, data, enc) ==
  LET n == Len(buf)
  IN  IF Len(data) >= n
      THEN DaaWhile(k, DaaXorInto(Encrypt(k, buf), 0, SubSeq(data, 1, n)),
                    SubSeq(data, n + 1, Len(data)), enc + 1)
      ELSE [buffer |-> buf, data |-> data, enc |-> enc]

\* Daa::update(data).
DaaUpdateCore(k, buf, p, data) ==
  LET n   == Len(buf)
      rem == n - p
  IN  IF Len(data) >= rem
      THEN LET b1 == DaaXorInto(buf, p, SubSeq(data, 1, rem))
               w  == DaaWhile(k, b1, SubSeq(data, rem + 1, Len(data)), 0)
           IN  IF w.data # << >>
               THEN [buffer |-> DaaXorInto(Encrypt(k, w.buffer), 0, w.data),
                     pos |-> Len(w.data), enc |-> w.enc + 1]
               ELSE [buffer |-> w.buffer, pos |-> n, enc |-> w.enc]
      ELSE [buffer |-> DaaXorInto(buf, p, data), pos |-> p + Len(data),
            enc |-> 0]

\* Daa::finalize that encrypts whatever pos is.
DaaFinalizeAlwaysEncrypts(k, buf, p) ==
  [out |-> Encrypt(k, buf), enc |-> 1]

\* Daa::finalize.
DaaFinalizeCore(k, buf, p) ==
  IF p # 0 THEN [out |-> Encrypt(k, buf), enc |-> 1]
  ELSE [out |-> buf, enc |-> 0]

\* Daa::from_cipher(Des::new(key)).
InitDaa ==
  \E k \in 1..NumKeys, v \in 1..NumMsgs :
    /\ alg = "daa"
    /\ cipher = k
    /\ cipher_prime = 0
    /\ state = << >>
    /\ r = << >>
    /\ pmac_state = << >>
    /\ lc_size = 0
    /\ par = 0
    /\ buffer = ZeroBlock(BlockSize("daa"))
    /\ variant = v
    /\ msg = << >>
    /\ phase = "active"
    /\ out = << >>
    /\ nenc = 0
    /\ ndec = 0
    /\ nupdate = 0
    /\ panicked = FALSE
    /\ hash_bs = 0
    /\ hash_os = 0
    /\ key = << >>
    /\ digest = << >>
    /\ opad_digest = << >>
    /\ customisation = << >>
    /\ reader = << >>
    /\ NoExt

\* Mac::update of Daa.
DaaUpdate ==
  /\ alg = "daa" /\ phase = "active"
  /\ \E n \in 0..(MaxDaaLen - Len(msg)) :
       LET u == DaaUpdateCore(cipher, buffer, daa_pos, Chunk(n))
       IN  /\ buffer' = u.buffer
           /\ daa_pos' = u.pos
           /\ nenc' = nenc + u.enc
           /\ msg' = msg \o Chunk(n)
           /\ nupdate' = IF nupdate < 2 THEN nupdate + 1 ELSE nupdate
  /\ UNCHANGED <<alg, cipher, cipher_prime, state, r, pmac_state, lc_size,
                 par, variant, phase, out, ndec, panicked>>
  /\ UNCHANGED hashVars
  /\ UNCHANGED <<key_size, nreset, opad_key, reader_pos, read_buffer, nread,
                 fn_in, fn_out,
                 ipad_digest, ipad_key, poly1305, compressed>>

\* Mac::finalize of Daa.
DaaFinalize ==
  /\ alg = "daa" /\ phase = "active"
  /\ LET f == DaaFinalizeCore(cipher, buffer, daa_pos)
     IN  /\ out' = f.out
         /\ nenc' = nenc + f.enc
  /\ phase' = "done"
  /\ UNCHANGED <<alg, cipher, cipher_prime, state, r, pmac_state, lc_size,
                 par, buffer, variant, msg, ndec, nupdate, panicked>>
  /\ UNCHANGED hashVars
  /\ UNCHANGED extVars

\* --------------------------------------------- PMAC update_blocks, directly
\* Most blocks passed to PmacCore::update_blocks in all.
MaxParBlocks == 7

\* A keyed PmacCore whose update_blocks is called directly, over a cipher
\* backend of parallel width 2..MaxPar + 2.
InitPmacPar ==
  \E k \in 1..NumKeys, v \in 1..NumMsgs, lc \in 1..MaxLcSize,
     p \in 2..(MaxPar + 2) :
    /\ alg = "pmac"
    /\ cipher = k
    /\ cipher_prime = 0
    /\ state = << >>
    /\ r = << >>
    /\ pmac_state = PmacInnerInit(k, BlockSize("pmac"), lc)
    /\ lc_size = lc
    /\ par = p
    /\ buffer = << >>
    /\ variant = v
    /\ msg = << >>
    /\ phase = "active"
    /\ out = << >>
    /\ nenc = 1
    /\ ndec = 0
    /\ nupdate = 0
    /\ panicked = FALSE
    /\ hash_bs = 0
    /\ hash_os = 0
    /\ key = << >>
    /\ digest = << >>
    /\ opad_digest = << >>
    /\ customisation = << >>
    /\ reader = << >>
    /\ NoExt

\* UpdateCore::update_blocks(blocks) of PmacCore with n whole blocks.
PmacUpdateBlocksCall ==
  /\ alg = "pmac" /\ phase = "active"
  /\ \E n \in 0..(MaxParBlocks - (Len(msg) \div BlockSize(alg))) :
       LET data   == Chunk(n * BlockSize(alg))
           blocks == Blocks(data, BlockSize(alg))
       IN  /\ pmac_state' =
                PmacUpdateBlocks(cipher, pmac_state, lc_size, par, blocks)
           /\ msg' = msg \o data
           /\ nenc' = nenc + n
           /\ nupdate' = IF nupdate < 2 THEN nupdate + 1 ELSE nupdate
  /\ UNCHANGED <<alg, cipher, cipher_prime, state, r, lc_size, par, buffer,
                 variant, phase, out, ndec, panicked>>
  /\ UNCHANGED hashVars
  /\ UNCHANGED extVars

\* -------------------------------------------------------------- SimpleHmac
\* D::new(): a hasher is its core and its own block buffer.
DigestNew == [core |-> << >>, buf |-> << >>]

\* Digest::update(data) of the hasher d.
DigestUpdate(d, data, bs) ==
  LET b == DigestBlocks("Eager", bs, d.buf, data)
  IN  [core |-> HashUpdateBlocks(d.core, Flatten(b.calls)), buf |-> b.buf]

\* Digest::finalize() of the hasher d.
DigestFinalize(d, bs, os) ==
  HashFinalizeFixedCore(d.core, d.buf, bs, os, 0).out

\* SimpleHmac::new_from_slice with `^= OPAD` in place of `^= OPAD ^ IPAD`.
SimpleHmacNewFromSliceXorOpadOnly(k, bs, os) ==
  LET d    == get_der_key(k, bs, os)
      buf1 == XorEach(d.block, IPAD)
      buf2 == XorEach(buf1, OPAD)
  IN  [digest   |-> DigestUpdate(DigestNew, buf1, bs),
       opad_key |-> buf2,
       panic    |-> d.panic]

\* SimpleHmac::new_from_slice(key).
SimpleHmacNewFromSlice(k, bs, os) ==
  LET d    == get_der_key(k, bs, os)
      buf1 == XorEach(d.block, IPAD)
      buf2 == XorEach(buf1, Xor8(OPAD, IPAD))
  IN  [digest   |-> DigestUpdate(DigestNew, buf1, bs),
       opad_key |-> buf2,
       panic    |-> d.panic]

\* SimpleHmac::finalize_into(out) of the instance with hasher d.
SimpleHmacFinalizeInto(d, ok, bs, os) ==
  LET h1 == DigestUpdate(DigestNew, ok, bs)
      h2 == DigestUpdate(h1, DigestFinalize(d, bs, os), bs)
  IN  DigestFinalize(h2, bs, os)

\* SimpleHmac::new_from_slice(key) for a hash D.
InitSimpleHmac ==
  \E cfg \in HashConfigs, klen \in 0..MaxKeyLen, kv \in 1..NumKeys,
     v \in 1..NumMsgs :
    LET k  == [i \in 1..klen |-> KeyByte(kv, i)]
        nf == SimpleHmacNewFromSlice(k, cfg[1], cfg[2])
    IN  /\ alg = "simple_hmac"
        /\ NoCipher
        /\ hash_bs = cfg[1]
        /\ hash_os = cfg[2]
        /\ key = k
        /\ digest = nf.digest.core
        /\ buffer = nf.digest.buf
        /\ opad_digest = << >>
        /\ customisation = << >>
        /\ reader = << >>
        /\ variant = v
        /\ msg = << >>
        /\ phase = IF nf.panic THEN "panicked" ELSE "active"
        /\ out = << >>
        /\ nupdate = 0
        /\ panicked = nf.panic
        /\ key_size = 0
        /\ nreset = 0
        /\ opad_key = nf.opad_key
        /\ reader_pos = 0
        /\ read_buffer = << >>
        /\ daa_pos = 0
        /\ nread = 0
        /\ fn_in = << >>
        /\ fn_out = << >>
        /\ ipad_digest = << >>
        /\ ipad_key = << >>
        /\ poly1305 = << >>
        /\ compressed = << >>

\* Update::update of SimpleHmac: self.digest.update(data).
SimpleHmacUpdate ==
  /\ alg = "simple_hmac" /\ phase = "active"
  /\ \E n \in 0..(MaxHmacLen - Len(msg)) :
       LET d == DigestUpdate([core |-> digest, buf |-> buffer], Chunk(n),
                             hash_bs)
       IN  /\ digest' = d.core
           /\ buffer' = d.buf
           /\ msg' = msg \o Chunk(n)
           /\ nupdate' = IF nupdate < 2 THEN nupdate + 1 ELSE nupdate
  /\ UNCHANGED <<alg, variant, phase, out, panicked, hash_bs, hash_os, key,
                 opad_digest, customisation, reader>>
  /\ UNCHANGED <<cipher, cipher_prime, state, r, pmac_state, lc_size, par,
                 nenc, ndec>>
  /\ UNCHANGED extVars

\* FixedOutput::finalize_into of SimpleHmac; the instance is consumed.
SimpleHmacFinalize ==
  /\ alg = "simple_hmac" /\ phase = "active"
  /\ out' = SimpleHmacFinalizeInto([core |-> digest, buf |-> buffer],
                                   opad_key, hash_bs, hash_os)
  /\ phase' = "done"
  /\ UNCHANGED <<alg, variant, msg, nupdate, panicked, hash_bs, hash_os, key,
                 digest, opad_digest, customisation, reader, buffer>>
  /\ UNCHANGED <<cipher, cipher_prime, state, r, pmac_state, lc_size, par,
                 nenc, ndec>>
  /\ UNCHANGED extVars

\* ------------------------------------------------------- KMAC XOF reader
\* KmacCore::finalize_xof_core(buffer) that absorbs no length encoding.
KmacFinalizeXofCoreNoLength(dg, bb, bs) ==
  LET rd == HashFinalizeXofCore(dg, bb, bs)
  IN  [digest |-> rd.input, buffer |-> << >>, reader |-> rd.input]

\* KmacCore::finalize_xof_core(buffer): right_encode(0) is absorbed, then
\* the hash's finalize_xof_core returns the reader.
KmacFinalizeXofCore(dg, bb, bs) ==
  LET d  == DigestBlocks("Eager", bs, bb, right_encode(0))
      c  == Absorb(dg, d.calls)
      rd == HashFinalizeXofCore(c, d.buf, bs)
  IN  [digest |-> rd.input, buffer |-> << >>, reader |-> rd.input]

\* The blocks first + 1 .. first + n returned by consecutive read_block
\* calls, concatenated.
RECURSIVE ReadBlocks(_, _, _, _)
ReadBlocks(input, bs, first, n) ==
  IF n = 0 THEN << >>
  ELSE ReadBlocks(input, bs, first, n - 1)
         \o ReadBlock(input, bs, first + n)

\* ReadBuffer::read that drops the unread rest of the last block and
\* starts every call with a new block.
ReadBufferReadDropsRest(input, bs, nblocks, rest, n) ==
  LET full == n \div bs
      lo   == n % bs
      blks == ReadBlocks(input, bs, nblocks, full)
      last == ReadBlock(input, bs, nblocks + full + 1)
  IN  IF lo = 0
      THEN [data |-> blks, rest |-> << >>, nblocks |-> nblocks + full]
      ELSE [data |-> blks \o SubSeq(last, 1, lo),
            rest |-> SubSeq(last, lo + 1, bs),
            nblocks |-> nblocks + full + 1]

\* XofReader::read(buf), buf holding n bytes: ReadBuffer::read serves the
\* unread rest of the last block, then whole blocks from read_block, then
\* the head of one more block whose rest it keeps.
ReadBufferRead(input, bs, nblocks, rest, n) ==
  IF Len(rest) # 0 /\ n < Len(rest)
  THEN [data |-> SubSeq(rest, 1, n),
        rest |-> SubSeq(rest, n + 1, Len(rest)),
        nblocks |-> nblocks]
  ELSE LET m    == n - Len(rest)
           full == m \div bs
           lo   == m % bs
           blks == ReadBlocks(input, bs, nblocks, full)
           last == ReadBlock(input, bs, nblocks + full + 1)
       IN  IF lo = 0
           THEN [data |-> rest \o blks, rest |-> << >>,
                 nblocks |-> nblocks + full]
           ELSE [data |-> rest \o blks \o SubSeq(last, 1, lo),
                 rest |-> SubSeq(last, lo + 1, bs),
                 nblocks |-> nblocks + full + 1]

\* Total numbers of bytes read from a reader: few bytes and lengths around
\* one block.
XofReadLens(bs) == (0..KmacSpread) \cup ((bs - 1)..(bs + KmacSpread))

\* A Kmac instance as new_customization(k, s) returns it, for the rate bs.
KmacNew(bs, s, k, v) ==
  /\ alg = "kmac"
  /\ NoCipher
  /\ NoExt
  /\ hash_bs = bs
  /\ hash_os = KmacOutputSize(bs)
  /\ key = k
  /\ digest = KmacNewCustomization(k, s, bs)
  /\ opad_digest = << >>
  /\ customisation = s
  /\ reader = << >>
  /\ buffer = << >>
  /\ variant = v
  /\ msg = << >>
  /\ phase = "active"
  /\ out = << >>
  /\ nupdate = 0
  /\ panicked = FALSE

\* Kmac128 / Kmac256 ::new_customization(key, customisation), one short key.
InitKmacXof ==
  \E bs \in KmacRates, s \in Customisations :
    KmacNew(bs, s, [i \in 1..KmacSpread |-> KeyByte(1, i)], 1)

\* Kmac128 / Kmac256 ::new_customization(key, customisation), short keys of
\* every kind and every message content.
InitKmacXofKeys ==
  \E bs \in KmacRates, s \in Customisations, v \in 1..NumMsgs,
     kv \in 1..NumKeys, klen \in 0..KmacSpread :
    KmacNew(bs, s, [i \in 1..klen |-> KeyByte(kv, i)], v)

\* Kmac128 / Kmac256 ::finalize_xof(): the instance is consumed, the reader
\* starts with an empty ReadBuffer.
KmacFinalizeXof ==
  /\ alg = "kmac" /\ phase = "active"
  /\ LET f == KmacFinalizeXofCore(digest, buffer, hash_bs)
     IN  /\ digest' = f.digest
         /\ buffer' = f.buffer
         /\ reader' = f.reader
  /\ reader_pos' = 0
  /\ read_buffer' = << >>
  /\ nread' = 0
  /\ out' = << >>
  /\ phase' = "xof"
  /\ UNCHANGED <<alg, variant, msg, nupdate, panicked, hash_bs, hash_os, key,
                 opad_digest, customisation>>
  /\ UNCHANGED <<cipher, cipher_prime, state, r, pmac_state, lc_size, par,
                 nenc, ndec>>
  /\ UNCHANGED <<key_size, nreset, opad_key, daa_pos,
                 fn_in, fn_out,
                 ipad_digest, ipad_key, poly1305, compressed>>

\* Kmac128Reader / Kmac256Reader ::read(buf), buf holding n bytes; out
\* collects the bytes of all calls.
XofRead ==
  /\ alg = "kmac" /\ phase = "xof"
  /\ \E n \in 0..(hash_bs + KmacSpread) :
       /\ Len(out) + n \in XofReadLens(hash_bs)
       /\ LET f == ReadBufferRead(reader, hash_bs, reader_pos, read_buffer, n)
          IN  /\ out' = out \o f.data
              /\ read_buffer' = f.rest
              /\ reader_pos' = f.nblocks
  /\ nread' = IF nread < 2 THEN nread + 1 ELSE nread
  /\ UNCHANGED <<alg, variant, msg, nupdate, panicked, hash_bs, hash_os, key,
                 digest, opad_digest, customisation, reader, buffer, phase>>
  /\ UNCHANGED <<cipher, cipher_prime, state, r, pmac_state, lc_size, par,
                 nenc, ndec>>
  /\ UNCHANGED <<key_size, nreset, opad_key, daa_pos,
                 fn_in, fn_out,
                 ipad_digest, ipad_key, poly1305, compressed>>

\* ------------------------------------------- left_encode / right_encode
\* A u64 is its four 16-bit limbs, most significant first.
LimbVals == {0, 1, 255, 256, 65535}

U64Vals == {<<a, b, c, d>> : a \in LimbVals, b \in LimbVals,
                             c \in LimbVals, d \in LimbVals}

\* u64::leading_zeros
U64LeadingZeros(v) ==
  IF v[1] # 0 THEN 16 - BitLen(v[1])
  ELSE IF v[2] # 0 THEN 32 - BitLen(v[2])
  ELSE IF v[3] # 0 THEN 48 - BitLen(v[3])
  ELSE 64 - BitLen(v[4])

\* num | 1
U64OrOne(v) == [v EXCEPT ![4] = IF v[4] % 2 = 0 THEN v[4] + 1 ELSE v[4]]

\* u64::to_be_bytes
U64ToBeBytes(v) ==
  [i \in 1..8 |-> IF i % 2 = 1 THEN v[(i + 1) \div 2] \div 256
                  ELSE v[i \div 2] % 256]

\* num_encoding_size(num) without `| 1`.
U64NumEncodingSizeNoOrOne(v) ==
  LET bits == 64 - U64LeadingZeros(v)
  IN  (bits + 7) \div 8

\* num_encoding_size(num): bits.div_ceil(8),
\* bits = 64 - (num | 1).leading_zeros()
U64NumEncodingSize(v) ==
  LET bits == 64 - U64LeadingZeros(U64OrOne(v))
  IN  (bits + 7) \div 8

\* left_encode(num, buffer)
U64LeftEncode(v) ==
  LET encoding_size == U64NumEncodingSize(v)
  IN  <<encoding_size>>
        \o SubSeq(U64ToBeBytes(v), 8 - encoding_size + 1, 8)

\* right_encode(num, buffer)
U64RightEncode(v) ==
  LET encoding_size == U64NumEncodingSize(v)
  IN  SubSeq(U64ToBeBytes(v), 8 - encoding_size + 1, 8)
        \o <<encoding_size>>

\* A caller about to encode a number.
InitEncode ==
  \E v \in U64Vals :
    /\ alg = "encode"
    /\ NoCipher
    /\ hash_bs = 0
    /\ hash_os = 0
    /\ key = << >>
    /\ digest = << >>
    /\ opad_digest = << >>
    /\ customisation = << >>
    /\ reader = << >>
    /\ buffer = << >>
    /\ variant = 0
    /\ msg = << >>
    /\ phase = "call"
    /\ out = << >>
    /\ nupdate = 0
    /\ panicked = FALSE
    /\ key_size = 0
    /\ nreset = 0
    /\ opad_key = << >>
    /\ reader_pos = 0
    /\ read_buffer = << >>
    /\ daa_pos = 0
    /\ nread = 0
    /\ fn_in = v
    /\ fn_out = << >>
    /\ ipad_digest = << >>
    /\ ipad_key = << >>
    /\ poly1305 = << >>
    /\ compressed = << >>

\* left_encode(num, &mut [0u8; 9])
LeftEncodeCall ==
  /\ alg = "encode" /\ phase = "call"
  /\ fn_out' = U64LeftEncode(fn_in)
  /\ phase' = "left"
  /\ UNCHANGED <<alg, cipher, cipher_prime, state, r, pmac_state, lc_size,
                 par, buffer, variant, msg, out, nenc, ndec, nupdate,
                 panicked>>
  /\ UNCHANGED hashVars
  /\ UNCHANGED <<key_size, nreset, opad_key, reader_pos, read_buffer,
                 daa_pos, nread, fn_in,
                 ipad_digest, ipad_key, poly1305, compressed>>

\* right_encode(num, &mut [0u8; 9])
RightEncodeCall ==
  /\ alg = "encode" /\ phase = "call"
  /\ fn_out' = U64RightEncode(fn_in)
  /\ phase' = "right"
  /\ UNCHANGED <<alg, cipher, cipher_prime, state, r, pmac_state, lc_size,
                 par, buffer, variant, msg, out, nenc, ndec, nupdate,
                 panicked>>
  /\ UNCHANGED hashVars
  /\ UNCHANGED <<key_size, nreset, opad_key, reader_pos, read_buffer,
                 daa_pos, nread, fn_in,
                 ipad_digest, ipad_key, poly1305, compressed>>

\* ------------------------------------------------- BELT-MAC phi1 / phi2
\* A u32 is its two 16-bit halves, the high half first.
\* u32::from_le_bytes of four bytes.
U32FromLeBytes(b) == <<b[3] + 256 * b[4], b[1] + 256 * b[2]>>

\* u32::to_le_bytes
U32ToLeBytes(w) == <<w[2] % 256, w[2] \div 256, w[1] % 256, w[1] \div 256>>

\* a ^ b on the 16-bit halves.
Xor16(a, b) ==
  Xor8(a \div 256, b \div 256) * 256 + Xor8(a % 256, b % 256)

\* a ^ b on u32.
U32Xor(a, b) == <<Xor16(a[1], b[1]), Xor16(a[2], b[2])>>

\* get_u32(block, i), i from 0.
get_u32(blk, i) == U32FromLeBytes(SubSeq(blk, 4 * i + 1, 4 * i + 4))

\* set_u32(block, val, i), i from 0: the block with word i written.
set_u32(blk, val, i) ==
  LET b == U32ToLeBytes(val[i + 1])
  IN  [j \in 1..Len(blk) |->
         IF j > 4 * i /\ j <= 4 * i + 4 THEN b[j - 4 * i] ELSE blk[j]]

\* phi1(u): (u1, u2, u3, u4) -> (u2, u3, u4, u1 ^ u2)
phi1(u) ==
  LET u1 == get_u32(u, 0)
      u2 == get_u32(u, 1)
      u3 == get_u32(u, 2)
      u4 == get_u32(u, 3)
      v  == <<u2, u3, u4, U32Xor(u1, u2)>>
  IN  set_u32(set_u32(set_u32(set_u32(ZeroBlock(Len(u)), v, 0), v, 1),
                      v, 2), v, 3)

\* phi2(u): (u1, u2, u3, u4) -> (u1 ^ u4, u1, u2, u3)
phi2(u) ==
  LET u1 == get_u32(u, 0)
      u2 == get_u32(u, 1)
      u3 == get_u32(u, 2)
      u4 == get_u32(u, 3)
      v  == <<U32Xor(u1, u4), u1, u2, u3>>
  IN  set_u32(set_u32(set_u32(set_u32(ZeroBlock(Len(u)), v, 0), v, 1),
                      v, 2), v, 3)

\* BeltMac::new(key).
InitBelt == InitCipher /\ alg = "belt"

\* --------------------------------------------------- Doublable::double
\* mem::transmute of eight bytes to u64 followed by to_be(): the bytes read
\* as a big-endian u64, on either endianness.
U64FromBeBytes(b) ==
  [i \in 1..4 |-> b[2 * i - 1] * 256 + b[2 * i]]

\* val << 1 on u64: the top bit is dropped.
U64Shl1(v) ==
  [i \in 1..4 |->
     ((v[i] * 2) % 65536) + (IF i < 4 THEN v[i + 1] \div 32768 ELSE 0)]

\* val >> 63
U64TopBit(v) == v[1] \div 32768

\* val ^ c for a constant c below 2^16.
U64XorLow(v, c) == [v EXCEPT ![4] = Xor16(@, c)]

\* The [u64; N] of a block after to_be(&mut val).
BlockWords(B) ==
  [w \in 1..(Len(B) \div 8) |->
     U64FromBeBytes(SubSeq(B, 8 * w - 7, 8 * w))]

\* to_be(&mut val) and mem::transmute back to the block.
WordsBlock(val) ==
  [i \in 1..(8 * Len(val)) |->
     U64ToBeBytes(val[((i - 1) \div 8) + 1])[((i - 1) % 8) + 1]]

\* `for v in val.iter_mut().rev()` that forgets the carry: t = *v << 1 only.
RECURSIVE DoubleLoopNoCarry(_, _, _)
DoubleLoopNoCarry(val, i, flag) ==
  IF i = 0 THEN [val |-> val, flag |-> flag]
  ELSE DoubleLoopNoCarry([val EXCEPT ![i] = U64Shl1(val[i])], i - 1,
                         U64TopBit(val[i]) = 1)

\* `for v in val.iter_mut().rev()`: t = *v << 1; if flag { t += 1 };
\* flag = (*v >> 63) == 1; *v = t.  The words i, i - 1, .., 1 remain.
RECURSIVE DoubleLoop(_, _, _)
DoubleLoop(val, i, flag) ==
  IF i = 0 THEN [val |-> val, flag |-> flag]
  ELSE LET t0 == U64Shl1(val[i])
           t  == IF flag THEN [t0 EXCEPT ![4] = @ + 1] ELSE t0
       IN  DoubleLoop([val EXCEPT ![i] = t], i - 1, U64TopBit(val[i]) = 1)

\* Doublable::double for Block<U8>.
DoubleU8(B) ==
  LET val == U64FromBeBytes(B)
      v2  == IF U64TopBit(val) = 1 THEN U64XorLow(U64Shl1(val), 27)
             ELSE U64Shl1(val)
  IN  U64ToBeBytes(v2)

\* Doublable::double for Block<U16> (c = 0b10000111) and Block<U32>
\* (c = 0b100_0010_0101): the constant goes into the last word.
DoubleWords(B, c) ==
  LET val == BlockWords(B)
      n   == Len(val)
      l   == DoubleLoop(val, n, FALSE)
      v2  == IF l.flag THEN [l.val EXCEPT ![n] = U64XorLow(@, c)] ELSE l.val
  IN  WordsBlock(v2)

\* Doublable::double(self)
double(B) ==
  CASE Len(B) = 8  -> DoubleU8(B)
    [] Len(B) = 16 -> DoubleWords(B, 135)
    [] Len(B) = 32 -> DoubleWords(B, 1061)

\* Blocks of n bytes (n = 8, 16 or 32) passed to double: the first and the
\* last byte of every 64-bit word vary, the other bytes hold one value.
DoubleBlocks(n) ==
  LET nw == n \div 8
  IN  {[i \in 1..n |-> IF i % 8 = 1 THEN hi[((i - 1) \div 8) + 1]
                       ELSE IF i % 8 = 0 THEN lo[i \div 8]
                       ELSE mid] :
         hi \in [1..nw -> {0, 128, 255}], lo \in [1..nw -> {1, 254}],
         mid \in {0, 129}}

\* A caller about to double a block.
InitDouble ==
  \E n \in {8, 16, 32} : \E B \in DoubleBlocks(n) :
    /\ alg = "double"
    /\ NoCipher
    /\ hash_bs = 0
    /\ hash_os = 0
    /\ key = << >>
    /\ digest = << >>
    /\ opad_digest = << >>
    /\ customisation = << >>
    /\ reader = << >>
    /\ buffer = << >>
    /\ variant = 0
    /\ msg = << >>
    /\ phase = "call"
    /\ out = << >>
    /\ nupdate = 0
    /\ panicked = FALSE
    /\ key_size = 0
    /\ nreset = 0
    /\ opad_key = << >>
    /\ reader_pos = 0
    /\ read_buffer = << >>
    /\ daa_pos = 0
    /\ nread = 0
    /\ fn_in = B
    /\ fn_out = << >>
    /\ ipad_digest = << >>
    /\ ipad_key = << >>
    /\ poly1305 = << >>
    /\ compressed = << >>

\* block.double(); the result may be doubled again.
DoubleCall ==
  /\ alg = "double" /\ phase \in {"call", "doubled"}
  /\ nupdate < 2
  /\ fn_in' = IF phase = "call" THEN fn_in ELSE fn_out
  /\ fn_out' = double(IF phase = "call" THEN fn_in ELSE fn_out)
  /\ phase' = "doubled"
  /\ nupdate' = nupdate + 1
  /\ UNCHANGED <<alg, cipher, cipher_prime, state, r, pmac_state, lc_size,
                 par, buffer, variant, msg, out, nenc, ndec, panicked>>
  /\ UNCHANGED hashVars
  /\ UNCHANGED <<key_size, nreset, opad_key, reader_pos, read_buffer,
                 daa_pos, nread,
                 ipad_digest, ipad_key, poly1305, compressed>>

\* ------------------------------------------------- the buffered engines
\* The seven engines behind a block buffer, each freshly keyed.
InitEngines ==
  \/ InitCipher /\ cipher = 1 /\ variant = 1
  \/ InitHmac /\ variant = 1 /\ Len(key) = MaxKeyLen
  \/ InitKmacXof

\* ------------------------------------------------------- Drop (zeroize)
\* Zeroize::zeroize of a block.
Zeroize(B) == [i \in 1..Len(B) |-> 0]

\* Drop for PmacState: counter, l_inv, every l_cache entry, tag and offset
\* are zeroized.
PmacStateDrop(ps) ==
  [counter |-> 0,
   l_inv   |-> Zeroize(ps.l_inv),
   l_cache |-> [i \in 1..Len(ps.l_cache) |-> Zeroize(ps.l_cache[i])],
   tag     |-> Zeroize(ps.tag),
   offset  |-> Zeroize(ps.offset)]

\* A freshly keyed core of one of the five block-cipher MACs, built with the
\* feature "zeroize".
InitDrop == InitCipher /\ variant = 1

\* Drop for CbcMacCore: self.state.zeroize().
CbcMacDrop ==
  /\ alg = "cbc" /\ phase \in {"active", "done"}
  /\ state' = Zeroize(state)
  /\ phase' = "dropped"
  /\ UNCHANGED <<alg, cipher, cipher_prime, r, pmac_state, lc_size, par,
                 buffer, variant, msg, out, nenc, ndec, nupdate, panicked>>
  /\ UNCHANGED hashVars
  /\ UNCHANGED extVars

\* Drop for RetailMacCore: self.state.zeroize().
RetailMacDrop ==
  /\ alg = "retail" /\ phase \in {"active", "done"}
  /\ state' = Zeroize(state)
  /\ phase' = "dropped"
  /\ UNCHANGED <<alg, cipher, cipher_prime, r, pmac_state, lc_size, par,
                 buffer, variant, msg, out, nenc, ndec, nupdate, panicked>>
  /\ UNCHANGED hashVars
  /\ UNCHANGED extVars

\* Drop for CmacCore: self.state.zeroize().
CmacDrop ==
  /\ alg = "cmac" /\ phase \in {"active", "done"}
  /\ state' = Zeroize(state)
  /\ phase' = "dropped"
  /\ UNCHANGED <<alg, cipher, cipher_prime, r, pmac_state, lc_size, par,
                 buffer, variant, msg, out, nenc, ndec, nupdate, panicked>>
  /\ UNCHANGED hashVars
  /\ UNCHANGED extVars

\* Drop for PmacCore: its field state: PmacState is dropped.
PmacDrop ==
  /\ alg = "pmac" /\ phase \in {"active", "done"}
  /\ pmac_state' = PmacStateDrop(pmac_state)
  /\ phase' = "dropped"
  /\ UNCHANGED <<alg, cipher, cipher_prime, state, r, lc_size, par,
                 buffer, variant, msg, out, nenc, ndec, nupdate, panicked>>
  /\ UNCHANGED hashVars
  /\ UNCHANGED extVars

\* Drop for BeltMacCore: self.state.zeroize(); the field r is a plain
\* array and is left as it is.
BeltMacDrop ==
  /\ alg = "belt" /\ phase \in {"active", "done"}
  /\ state' = Zeroize(state)
  /\ phase' = "dropped"
  /\ UNCHANGED <<alg, cipher, cipher_prime, r, pmac_state, lc_size, par,
                 buffer, variant, msg, out, nenc, ndec, nupdate, panicked>>
  /\ UNCHANGED hashVars
  /\ UNCHANGED extVars

\* ------------------------------------------------- the resettable HMACs
\* HmacResetCore::new_from_slice(key): as HmacCore, and the inner hash
\* after the ipad block is kept as ipad_digest.
HmacResetNewFromSlice(k, bs, os) ==
  LET d    == get_der_key(k, bs, os)
      buf1 == XorEach(d.block, IPAD)
      dg   == HashUpdateBlocks(<< >>, <<buf1>>)
      buf2 == XorEach(buf1, Xor8(IPAD, OPAD))
  IN  [digest      |-> dg,
       opad_digest |-> HashUpdateBlocks(<< >>, <<buf2>>),
       ipad_digest |-> dg,
       panic       |-> d.panic]

\* HmacResetCore::finalize_fixed_core(buffer, out): the outer hash is a
\* clone of opad_digest.
HmacResetFinalizeCore(dg, od, bb, bs, os, res) ==
  LET inner == HashFinalizeFixedCore(dg, bb, bs, os, res)
      reset == << >>
      h     == od
      d     == DigestBlocks("Eager", bs, reset, inner.out)
      h1    == IF Len(d.calls) >= 1 THEN HashUpdateBlocks(h, d.calls[1])
               ELSE h
      h2    == IF Len(d.calls) >= 2 THEN HashUpdateBlocks(h1, d.calls[2])
               ELSE h1
      outer == HashFinalizeFixedCore(h2, d.buf, bs, os, res)
  IN  [digest |-> inner.core, opad_digest |-> od,
       buffer |-> outer.buf, out |-> outer.out]

\* A reset of HmacResetCore that leaves the inner hash as it is.
HmacResetCoreResetKeepsDigest(dg, ipd) == dg

\* Reset for HmacResetCore: self.digest = self.ipad_digest.clone().
HmacResetCoreReset(dg, ipd) == ipd

\* SimpleHmacReset::new_from_slice(key).
SimpleHmacResetNewFromSlice(k, bs, os) ==
  LET d    == get_der_key(k, bs, os)
      ipad == XorEach(d.block, IPAD)
      opad == XorEach(d.block, OPAD)
  IN  [digest   |-> DigestUpdate(DigestNew, ipad, bs),
       opad_key |-> opad,
       ipad_key |-> ipad,
       panic    |-> d.panic]

\* Reset for SimpleHmacReset: the hasher is reset and absorbs ipad_key.
SimpleHmacResetReset(d, ik, bs) == DigestUpdate(DigestNew, ik, bs)

\* D::finalize_reset(): the digest, and the hasher as new.
DigestFinalizeReset(d, bs, os) ==
  [out |-> DigestFinalize(d, bs, os), digest |-> DigestNew]

\* SimpleHmacReset::finalize_into_reset(out).
SimpleHmacResetFinalizeIntoReset(d, ok, ik, bs, os) ==
  LET h1 == DigestUpdate(DigestNew, ok, bs)
      fr == DigestFinalizeReset(d, bs, os)
      h2 == DigestUpdate(h1, fr.out, bs)
  IN  [digest |-> DigestUpdate(fr.digest, ik, bs),
       out    |-> DigestFinalize(h2, bs, os)]

\* HmacReset::new_from_slice(key) or SimpleHmacReset::new_from_slice(key)
\* for a hash D.
InitHmacReset ==
  \E a \in {"hmac_reset", "simple_hmac_reset"}, cfg \in HashConfigs,
     klen \in 0..MaxKeyLen, kv \in 1..NumKeys :
    LET k  == [i \in 1..klen |-> KeyByte(kv, i)]
        nf == HmacResetNewFromSlice(k, cfg[1], cfg[2])
        ns == SimpleHmacResetNewFromSlice(k, cfg[1], cfg[2])
        hm == a = "hmac_reset"
    IN  /\ alg = a
        /\ NoCipher
        /\ hash_bs = cfg[1]
        /\ hash_os = cfg[2]
        /\ key = k
        /\ digest = IF hm THEN nf.digest ELSE ns.digest.core
        /\ buffer = IF hm THEN << >> ELSE ns.digest.buf
        /\ opad_digest = IF hm THEN nf.opad_digest ELSE << >>
        /\ ipad_digest = IF hm THEN nf.ipad_digest ELSE << >>
        /\ opad_key = IF hm THEN << >> ELSE ns.opad_key
        /\ ipad_key = IF hm THEN << >> ELSE ns.ipad_key
        /\ customisation = << >>
        /\ reader = << >>
        /\ variant = 1
        /\ msg = << >>
        /\ phase = IF nf.panic THEN "panicked" ELSE "active"
        /\ out = << >>
        /\ nupdate = 0
        /\ panicked = nf.panic
        /\ key_size = 0
        /\ nreset = 0
        /\ reader_pos = 0
        /\ read_buffer = << >>
        /\ daa_pos = 0
        /\ nread = 0
        /\ fn_in = << >>
        /\ fn_out = << >>
        /\ poly1305 = << >>
        /\ compressed = << >>

\* Update::update of HmacReset: buffer.digest_blocks(data, update_blocks).
HmacResetUpdate ==
  /\ alg = "hmac_reset" /\ phase = "active"
  /\ \E n \in 0..(MaxHmacLen - Len(msg)) :
       LET d  == DigestBlocks("Eager", hash_bs, buffer, Chunk(n))
           s1 == IF Len(d.calls) >= 1
                 THEN HmacUpdateBlocks(digest, d.calls[1]) ELSE digest
           s2 == IF Len(d.calls) >= 2
                 THEN HmacUpdateBlocks(s1, d.calls[2]) ELSE s1
       IN  /\ digest' = s2
           /\ buffer' = d.buf
           /\ msg' = msg \o Chunk(n)
           /\ nupdate' = IF nupdate < 2 THEN nupdate + 1 ELSE nupdate
  /\ UNCHANGED <<alg, variant, phase, out, panicked, hash_bs, hash_os, key,
                 opad_digest, customisation, reader>>
  /\ UNCHANGED <<cipher, cipher_prime, state, r, pmac_state, lc_size, par,
                 nenc, ndec>>
  /\ UNCHANGED extVars

\* FixedOutput::finalize_into of HmacReset; the instance is consumed.
HmacResetFinalize ==
  /\ alg = "hmac_reset" /\ phase = "active"
  /\ \E res \in 0..MaxResidue :
       LET f == HmacResetFinalizeCore(digest, opad_digest, buffer, hash_bs,
                                      hash_os, res)
       IN  /\ digest' = f.digest
           /\ opad_digest' = f.opad_digest
           /\ buffer' = f.buffer
           /\ out' = f.out
  /\ phase' = "done"
  /\ UNCHANGED <<alg, variant, msg, nupdate, panicked, hash_bs, hash_os, key,
                 customisation, reader>>
  /\ UNCHANGED <<cipher, cipher_prime, state, r, pmac_state, lc_size, par,
                 nenc, ndec>>
  /\ UNCHANGED extVars

\* FixedOutputReset::finalize_into_reset of HmacReset:
\* core.finalize_fixed_core(buffer, out); core.reset(); buffer.reset().
HmacResetFinalizeReset ==
  /\ alg = "hmac_reset" /\ phase = "active"
  /\ nreset < MaxResets
  /\ \E res \in 0..MaxResidue :
       LET f == HmacResetFinalizeCore(digest, opad_digest, buffer, hash_bs,
                                      hash_os, res)
       IN  /\ digest' = HmacResetCoreReset(f.digest, ipad_digest)
           /\ opad_digest' = f.opad_digest
           /\ buffer' = << >>
           /\ out' = f.out
  /\ phase' = "reset"
  /\ nreset' = nreset + 1
  /\ UNCHANGED <<alg, variant, msg, nupdate, panicked, hash_bs, hash_os, key,
                 customisation, reader>>
  /\ UNCHANGED <<cipher, cipher_prime, state, r, pmac_state, lc_size, par,
                 nenc, ndec>>
  /\ UNCHANGED <<key_size, opad_key, reader_pos, read_buffer, daa_pos, nread,
                 fn_in, fn_out, ipad_digest, ipad_key, poly1305, compressed>>

\* Reset::reset of HmacReset: core.reset(); buffer.reset().
HmacResetResetCall ==
  /\ alg = "hmac_reset" /\ phase = "active"
  /\ nreset < MaxResets
  /\ digest' = HmacResetCoreReset(digest, ipad_digest)
  /\ buffer' = << >>
  /\ phase' = "reset"
  /\ nreset' = nreset + 1
  /\ UNCHANGED <<alg, variant, msg, out, nupdate, panicked, hash_bs, hash_os,
                 key, opad_digest, customisation, reader>>
  /\ UNCHANGED <<cipher, cipher_prime, state, r, pmac_state, lc_size, par,
                 nenc, ndec>>
  /\ UNCHANGED <<key_size, opad_key, reader_pos, read_buffer, daa_pos, nread,
                 fn_in, fn_out, ipad_digest, ipad_key, poly1305, compressed>>

\* Update::update of SimpleHmacReset: self.digest.update(data).
SimpleHmacResetUpdate ==
  /\ alg = "simple_hmac_reset" /\ phase = "active"
  /\ \E n \in 0..(MaxHmacLen - Len(msg)) :
       LET d == DigestUpdate([core |-> digest, buf |-> buffer], Chunk(n),
                             hash_bs)
       IN  /\ digest' = d.core
           /\ buffer' = d.buf
           /\ msg' = msg \o Chunk(n)
           /\ nupdate' = IF nupdate < 2 THEN nupdate + 1 ELSE nupdate
  /\ UNCHANGED <<alg, variant, phase, out, panicked, hash_bs, hash_os, key,
                 opad_digest, customisation, reader>>
  /\ UNCHANGED <<cipher, cipher_prime, state, r, pmac_state, lc_size, par,
                 nenc, ndec>>
  /\ UNCHANGED extVars

\* FixedOutput::finalize_into of SimpleHmacReset; the instance is consumed.
SimpleHmacResetFinalize ==
  /\ alg = "simple_hmac_reset" /\ phase = "active"
  /\ out' = SimpleHmacFinalizeInto([core |-> digest, buf |-> buffer],
                                   opad_key, hash_bs, hash_os)
  /\ phase' = "done"
  /\ UNCHANGED <<alg, variant, msg, nupdate, panicked, hash_bs, hash_os, key,
                 digest, opad_digest, customisation, reader, buffer>>
  /\ UNCHANGED <<cipher, cipher_prime, state, r, pmac_state, lc_size, par,
                 nenc, ndec>>
  /\ UNCHANGED extVars

\* FixedOutputReset::finalize_into_reset of SimpleHmacReset.
SimpleHmacResetFinalizeReset ==
  /\ alg = "simple_hmac_reset" /\ phase = "active"
  /\ nreset < MaxResets
  /\ LET f == SimpleHmacResetFinalizeIntoReset(
                [core |-> digest, buf |-> buffer], opad_key, ipad_key,
                hash_bs, hash_os)
     IN  /\ digest' = f.digest.core
         /\ buffer' = f.digest.buf
         /\ out' = f.out
  /\ phase' = "reset"
  /\ nreset' = nreset + 1
  /\ UNCHANGED <<alg, variant, msg, nupdate, panicked, hash_bs, hash_os, key,
                 opad_digest, customisation, reader>>
  /\ UNCHANGED <<cipher, cipher_prime, state, r, pmac_state, lc_size, par,
                 nenc, ndec>>
  /\ UNCHANGED <<key_size, opad_key, reader_pos, read_buffer, daa_pos, nread,
                 fn_in, fn_out, ipad_digest, ipad_key, poly1305, compressed>>

\* Reset::reset of SimpleHmacReset.
SimpleHmacResetResetCall ==
  /\ alg = "simple_hmac_reset" /\ phase = "active"
  /\ nreset < MaxResets
  /\ LET d == SimpleHmacResetReset([core |-> digest, buf |-> buffer],
                                   ipad_key, hash_bs)
     IN  /\ digest' = d.core
         /\ buffer' = d.buf
  /\ phase' = "reset"
  /\ nreset' = nreset + 1
  /\ UNCHANGED <<alg, variant, msg, out, nupdate, panicked, hash_bs, hash_os,
                 key, opad_digest, customisation, reader>>
  /\ UNCHANGED <<cipher, cipher_prime, state, r, pmac_state, lc_size, par,
                 nenc, ndec>>
  /\ UNCHANGED <<key_size, opad_key, reader_pos, read_buffer, daa_pos, nread,
                 fn_in, fn_out, ipad_digest, ipad_key, poly1305, compressed>>

\* The caller keeps the tag and passes the next message to the instance
\* that was reset.
HmacResetNextMessage ==
  /\ alg \in {"hmac_reset", "simple_hmac_reset"} /\ phase = "reset"
  /\ \E v \in 1..NumMsgs : variant' = v
  /\ phase' = "active"
  /\ msg' = << >>
  /\ out' = << >>
  /\ nupdate' = 0
  /\ UNCHANGED <<alg, buffer, panicked>>
  /\ UNCHANGED hashVars
  /\ UNCHANGED <<cipher, cipher_prime, state, r, pmac_state, lc_size, par,
                 nenc, ndec>>
  /\ UNCHANGED extVars

\* ---------------------------------------------------------------- Poly1305
\* Longest message (bytes) passed to a Poly1305 instance.
MaxPolyLen == 33

RECURSIVE Pow2(_)
Pow2(n) == IF n = 0 THEN 1 ELSE 2 * Pow2(n - 1)

\* a & b and a | b on n-bit values.
RECURSIVE AndN(_, _, _)
AndN(a, b, n) ==
  IF n = 0 THEN 0
  ELSE ((a % 2) * (b % 2)) + 2 * AndN(a \div 2, b \div 2, n - 1)

RECURSIVE OrN(_, _, _)
OrN(a, b, n) ==
  IF n = 0 THEN 0
  ELSE (IF (a % 2) + (b % 2) > 0 THEN 1 ELSE 0)
         + 2 * OrN(a \div 2, b \div 2, n - 1)

\* A u32 is the pair <<high 16 bits, low 16 bits>>.
U32OfNat(x) == <<x \div 65536, x % 65536>>

U32And(a, b) == <<AndN(a[1], b[1], 16), AndN(a[2], b[2], 16)>>

U32Or(a, b) == <<OrN(a[1], b[1], 16), OrN(a[2], b[2], 16)>>

\* w >> n on u32, 0 <= n < 32.
U32Shr(w, n) ==
  IF n >= 16 THEN <<0, w[1] \div Pow2(n - 16)>>
  ELSE <<w[1] \div Pow2(n),
         (w[2] \div Pow2(n)) + (w[1] % Pow2(n)) * Pow2(16 - n)>>

\* w << n on u32, 0 <= n < 32: the bits shifted out are lost.
U32Shl(w, n) ==
  IF n >= 16 THEN <<(w[2] % Pow2(32 - n)) * Pow2(n - 16), 0>>
  ELSE <<(w[1] % Pow2(16 - n)) * Pow2(n) + (w[2] \div Pow2(16 - n)),
         (w[2] % Pow2(16 - n)) * Pow2(n)>>

\* The value of a u32 below 2^31.
U32Val(w) == w[1] * 65536 + w[2]

\* (LE::read_u32(&bytes[off..off + 4]) >> sh) & mask, with a mask below
\* 2^26, as a number.
PolyReadMasked(bytes, off, sh, mask) ==
  U32Val(U32And(U32Shr(U32FromLeBytes(SubSeq(bytes, off + 1, off + 4)), sh),
                U32OfNat(mask)))

\* u64 values are five limbs of 13 bits, least significant first, the last
\* one of 12 bits.
PolyLimbs(x) == <<x % 8192, (x \div 8192) % 8192, x \div 67108864, 0, 0>>

\* Carries the column sums into limbs, modulo 2^64.
RECURSIVE PolyCarry(_, _, _)
PolyCarry(cols, i, carry) ==
  IF i > 5 THEN << >>
  ELSE LET t == cols[i] + carry
       IN  <<IF i = 5 THEN t % 4096 ELSE t % 8192>>
             \o PolyCarry(cols, i + 1, t \div 8192)

\* The column sums of u64::from(a) * u64::from(b), a and b below 2^31.
PolyMulCols(a, b) ==
  LET x == PolyLimbs(a)
      y == PolyLimbs(b)
  IN  <<x[1] * y[1],
        x[1] * y[2] + x[2] * y[1],
        x[1] * y[3] + x[2] * y[2] + x[3] * y[1],
        x[2] * y[3] + x[3] * y[2],
        x[3] * y[3]>>

\* a1 * b1 + a2 * b2 + a3 * b3 + a4 * b4 + a5 * b5 on u64.
PolyDot(a, b) ==
  LET c == [i \in 1..5 |-> PolyMulCols(a[i], b[i])]
  IN  PolyCarry([k \in 1..5 |->
                   c[1][k] + c[2][k] + c[3][k] + c[4][k] + c[5][k]], 1, 0)

\* d + u64::from(c), c a u32 in limbs.
PolyAdd(d, c) == PolyCarry([k \in 1..5 |-> d[k] + c[k]], 1, 0)

\* (d >> 26) as u32, in limbs.
PolyShr26(d) == <<d[3], d[4], d[5] % 64, 0, 0>>

\* d as u32 & 0x3ff_ffff.
PolyLow26(d) == d[1] + 8192 * d[2]

\* h += m in Poly1305::block: the five 26-bit words of the buffer, the
\* last one with the high bit unless finished, added to h.
PolyAddBlock(hh, buf, finished) ==
  LET hibit == IF finished THEN 0 ELSE 16777216
  IN  <<hh[1] + PolyReadMasked(buf, 0, 0, 67108863),
        hh[2] + PolyReadMasked(buf, 3, 2, 67108863),
        hh[3] + PolyReadMasked(buf, 6, 4, 67108863),
        hh[4] + PolyReadMasked(buf, 9, 6, 67108863),
        hh[5] + U32Val(U32Or(U32Shr(U32FromLeBytes(SubSeq(buf, 13, 16)), 8),
                             U32OfNat(hibit)))>>

\* h *= r in Poly1305::block: d0..d4 on u64.
PolyMulR(rr, hv) ==
  LET s1 == rr[2] * 5
      s2 == rr[3] * 5
      s3 == rr[4] * 5
      s4 == rr[5] * 5
  IN  <<PolyDot(hv, <<rr[1], s4, s3, s2, s1>>),
        PolyDot(hv, <<rr[2], rr[1], s4, s3, s2>>),
        PolyDot(hv, <<rr[3], rr[2], rr[1], s4, s3>>),
        PolyDot(hv, <<rr[4], rr[3], rr[2], rr[1], s4>>),
        PolyDot(hv, <<rr[5], rr[4], rr[3], rr[2], rr[1]>>)>>

\* (partial) h %= p in Poly1305::block.
PolyReduce(d) ==
  LET e1 == PolyAdd(d[2], PolyShr26(d[1]))
      e2 == PolyAdd(d[3], PolyShr26(e1))
      e3 == PolyAdd(d[4], PolyShr26(e2))
      e4 == PolyAdd(d[5], PolyShr26(e3))
      c4 == PolyShr26(e4)
      \* h0 += c * 5 on u32
      g0 == PolyCarry([k \in 1..5 |->
                         c4[k] * 5 + PolyLimbs(PolyLow26(d[1]))[k]], 1, 0)
      c0 == g0[3] % 64
  IN  <<PolyLow26(g0), PolyLow26(e1) + c0, PolyLow26(e2), PolyLow26(e3),
        PolyLow26(e4)>>

\* Poly1305::block(finished) on the fields h and buffer.
PolyBlock(rr, hh, buf, finished) ==
  PolyReduce(PolyMulR(rr, PolyAddBlock(hh, buf, finished)))

\* Poly1305::new(key).
PolyNew(k) ==
  [r |-> <<PolyReadMasked(k, 0, 0, 67108863),
           PolyReadMasked(k, 3, 2, 67108611),
           PolyReadMasked(k, 6, 4, 67092735),
           PolyReadMasked(k, 9, 6, 66076671),
           PolyReadMasked(k, 12, 8, 1048575)>>,
   h |-> <<0, 0, 0, 0, 0>>,
   pad |-> [i \in 1..4 |->
              U32FromLeBytes(SubSeq(k, 16 + 4 * (i - 1) + 1, 16 + 4 * i))],
   leftover |-> 0,
   buffer |-> ZeroBlock(16)]

\* while m.len() >= BLOCK_SIZE { buffer = m[..16]; block(false); m = m[16..] }
RECURSIVE PolyWhile(_, _, _, _)
PolyWhile(p, m, least, calls) ==
  IF Len(m) >= least
  THEN PolyWhile([p EXCEPT !.buffer = SubSeq(m, 1, 16),
                           !.h = PolyBlock(p.r, p.h, SubSeq(m, 1, 16),
                                           FALSE)],
                 SubSeq(m, 17, Len(m)), least, calls + 1)
  ELSE [poly |-> p, m |-> m, calls |-> calls]

\* Poly1305::input(data) from the loop on: whole blocks while at least
\* `least` bytes are left, then the rest is kept.
PolyInputRest(p, m, least, calls) ==
  LET w == PolyWhile(p, m, least, calls)
      n == Len(w.m)
  IN  [poly  |-> [w.poly EXCEPT
                    !.buffer = [i \in 1..16 |->
                                  IF i <= n THEN w.m[i]
                                  ELSE w.poly.buffer[i]],
                    !.leftover = n],
       calls |-> w.calls]

\* Poly1305::input whose loop runs while more than a block is left.
PolyInputLoopGreater(p, data) ==
  IF p.leftover > 0
  THEN LET want == IF 16 - p.leftover < Len(data) THEN 16 - p.leftover
                   ELSE Len(data)
           buf  == [i \in 1..16 |->
                      IF i > p.leftover /\ i <= p.leftover + want
                      THEN data[i - p.leftover] ELSE p.buffer[i]]
           m    == SubSeq(data, want + 1, Len(data))
           lo   == p.leftover + want
       IN  IF lo < 16
           THEN [poly  |-> [p EXCEPT !.buffer = buf, !.leftover = lo],
                 calls |-> 0]
           ELSE PolyInputRest([p EXCEPT
                                 !.buffer = buf,
                                 !.h = PolyBlock(p.r, p.h, buf, FALSE),
                                 !.leftover = 0], m, 17, 1)
  ELSE PolyInputRest(p, data, 17, 0)

\* Poly1305::input(data): the instance afterwards and the block() calls
\* made.
PolyInput(p, data) ==
  IF p.leftover > 0
  THEN LET want == IF 16 - p.leftover < Len(data) THEN 16 - p.leftover
                   ELSE Len(data)
           buf  == [i \in 1..16 |->
                      IF i > p.leftover /\ i <= p.leftover + want
                      THEN data[i - p.leftover] ELSE p.buffer[i]]
           m    == SubSeq(data, want + 1, Len(data))
           lo   == p.leftover + want
       IN  IF lo < 16
           THEN [poly  |-> [p EXCEPT !.buffer = buf, !.leftover = lo],
                 calls |-> 0]
           ELSE PolyInputRest([p EXCEPT
                                 !.buffer = buf,
                                 !.h = PolyBlock(p.r, p.h, buf, FALSE),
                                 !.leftover = 0], m, 16, 1)
  ELSE PolyInputRest(p, data, 16, 0)

\* f = u64::from(a) + u64::from(b) + carry on the 16-bit halves:
\* <<f as u32, f >> 32>>.
U32AddCarry(a, b, carry) ==
  LET lo == a[2] + b[2] + carry
      hi == a[1] + b[1] + (lo \div 65536)
  IN  <<<<hi % 65536, lo % 65536>>, hi \div 65536>>

\* Poly1305::result(), the last block: the leftover bytes, a 1 byte and zero
\* bytes, processed with finished set.
PolyLastBlock(p) ==
  LET buf == [i \in 1..16 |->
                IF i <= p.leftover THEN p.buffer[i]
                ELSE IF i = p.leftover + 1 THEN 1 ELSE 0]
  IN  IF p.leftover > 0 THEN PolyBlock(p.r, p.h, buf, TRUE) ELSE p.h

\* Poly1305::result(), "fully carry h".
PolyFullCarry(hh) ==
  LET a1 == hh[2] % 67108864
      a2 == hh[3] + (hh[2] \div 67108864)
      a3 == hh[4] + (a2 \div 67108864)
      a4 == hh[5] + (a3 \div 67108864)
      a0 == hh[1] + (a4 \div 67108864) * 5
  IN  <<a0 % 67108864, a1 + (a0 \div 67108864), a2 % 67108864,
        a3 % 67108864, a4 % 67108864>>

\* Poly1305::result(), "compute h + -p" and "select h if h < p, or h + -p
\* if h >= p".
PolyMinusP(b) ==
  LET t0  == b[1] + 5
      t1  == b[2] + (t0 \div 67108864)
      t2  == b[3] + (t1 \div 67108864)
      t3  == b[4] + (t2 \div 67108864)
      t4  == b[5] + (t3 \div 67108864)
      \* g4 = t4 - 2^26 wraps below zero, and mask = 0, when t4 < 2^26
      neg == t4 < 67108864
  IN  IF neg THEN b
      ELSE <<t0 % 67108864, t1 % 67108864, t2 % 67108864, t3 % 67108864,
             t4 - 67108864>>

\* Poly1305::result(), "h = h % (2^128)": the four u32 words of h.
PolyWords(hv) ==
  LET f == [i \in 1..5 |-> U32OfNat(hv[i])]
  IN  <<U32Or(f[1], U32Shl(f[2], 26)),
        U32Or(U32Shr(f[2], 6), U32Shl(f[3], 20)),
        U32Or(U32Shr(f[3], 12), U32Shl(f[4], 14)),
        U32Or(U32Shr(f[4], 18), U32Shl(f[5], 8))>>

\* Poly1305::result(), "mac = (h + pad) % (2^128)" and the tag bytes.
PolyAddPad(w, pad) ==
  LET s0 == U32AddCarry(w[1], pad[1], 0)
      s1 == U32AddCarry(w[2], pad[2], s0[2])
      s2 == U32AddCarry(w[3], pad[3], s1[2])
      s3 == U32AddCarry(w[4], pad[4], s2[2])
  IN  U32ToLeBytes(s0[1]) \o U32ToLeBytes(s1[1]) \o U32ToLeBytes(s2[1])
        \o U32ToLeBytes(s3[1])

\* Poly1305::result(): the last block, the full carry, the choice between
\* h and h - p, the four words of h modulo 2^128 and the addition of pad.
PolyResult(p) ==
  PolyAddPad(PolyWords(PolyMinusP(PolyFullCarry(PolyLastBlock(p)))), p.pad)

\* Byte i (1-based) of the 32-byte key of pattern kv.
PolyKeyByte(kv, i) == IF kv = 1 THEN (i * 29 + 101) % 256 ELSE 255

\* Poly1305::new(key).
InitPoly ==
  \E kv \in 1..NumKeys, v \in 1..NumMsgs :
    LET k == [i \in 1..32 |-> PolyKeyByte(kv, i)]
    IN  /\ alg = "poly1305"
        /\ NoCipher
        /\ hash_bs = 0
        /\ hash_os = 0
        /\ key = k
        /\ digest = << >>
        /\ opad_digest = << >>
        /\ customisation = << >>
        /\ reader = << >>
        /\ buffer = << >>
        /\ variant = v
        /\ msg = << >>
        /\ phase = "active"
        /\ out = << >>
        /\ nupdate = 0
        /\ panicked = FALSE
        /\ key_size = 0
        /\ nreset = 0
        /\ opad_key = << >>
        /\ reader_pos = 0
        /\ read_buffer = << >>
        /\ daa_pos = 0
        /\ nread = 0
        /\ fn_in = << >>
        /\ fn_out = << >>
        /\ ipad_digest = << >>
        /\ ipad_key = << >>
        /\ poly1305 = PolyNew(k)
        /\ compressed = << >>

\* poly.input(data); nenc counts the calls of block().
PolyInputCall ==
  /\ alg = "poly1305" /\ phase = "active"
  /\ \E n \in 0..(MaxPolyLen - Len(msg)) :
       LET i == PolyInput(poly1305, Chunk(n))
       IN  /\ poly1305' = i.poly
           /\ nenc' = nenc + i.calls
           /\ msg' = msg \o Chunk(n)
           /\ nupdate' = IF nupdate < 2 THEN nupdate + 1 ELSE nupdate
  /\ UNCHANGED <<alg, cipher, cipher_prime, state, r, pmac_state, lc_size,
                 par, buffer, variant, phase, out, ndec, panicked>>
  /\ UNCHANGED hashVars
  /\ UNCHANGED <<key_size, nreset, opad_key, reader_pos, read_buffer,
                 daa_pos, nread, fn_in, fn_out, ipad_digest, ipad_key,
                 compressed>>

\* poly.result(); the instance is consumed.
PolyResultCall ==
  /\ alg = "poly1305" /\ phase = "active"
  /\ out' = PolyResult(poly1305)
  /\ phase' = "done"
  /\ UNCHANGED <<alg, cipher, cipher_prime, state, r, pmac_state, lc_size,
                 par, buffer, variant, msg, nenc, ndec, nupdate, panicked>>
  /\ UNCHANGED hashVars
  /\ UNCHANGED extVars

\* ------------------------------- CBC-MAC, Retail-MAC and DAA on zero bytes
\* Longest message (bytes) passed when the chunks may be zero bytes.
MaxPadLen == 17

\* The freshly keyed CbcMac, RetailMac and Daa.
InitZeroPad ==
  \/ InitCipher /\ alg \in {"cbc", "retail"}
  \/ InitDaa

\* The next n message bytes: those of the message pattern, or the zero
\* bytes that fill the message up to the next block boundary.
ChunkOrZeros(n, zeros) == IF zeros THEN ZeroBlock(n) ELSE Chunk(n)

\* Zero bytes are passed only to fill a message that ends inside a block.
ZeroFill(n, zeros, bs) ==
  zeros => (Len(msg) % bs # 0 /\ n = bs - (Len(msg) % bs))

\* Update::update of CbcMac with the next bytes or with zero bytes.
CbcMacUpdateData ==
  /\ alg = "cbc" /\ phase = "active"
  /\ \E n \in 0..(MaxPadLen - Len(msg)), zeros \in BOOLEAN :
       LET data == ChunkOrZeros(n, zeros)
           d  == DigestBlocks("Eager", BlockSize(alg), buffer, data)
           s1 == IF Len(d.calls) >= 1
                 THEN CbcMacUpdateBlocks(cipher, state, d.calls[1]) ELSE state
           s2 == IF Len(d.calls) >= 2
                 THEN CbcMacUpdateBlocks(cipher, s1, d.calls[2]) ELSE s1
       IN  /\ ZeroFill(n, zeros, BlockSize(alg))
           /\ state' = s2
           /\ buffer' = d.buf
           /\ msg' = msg \o data
           /\ nenc' = nenc + NumBlocks(d.calls)
           /\ nupdate' = IF nupdate < 2 THEN nupdate + 1 ELSE nupdate
  /\ UNCHANGED <<alg, cipher, cipher_prime, r, pmac_state, lc_size, par,
                 variant, phase, out, ndec, panicked>>
  /\ UNCHANGED hashVars
  /\ UNCHANGED extVars

\* Update::update of RetailMac with the next bytes or with zero bytes.
RetailMacUpdateData ==
  /\ alg = "retail" /\ phase = "active"
  /\ \E n \in 0..(MaxPadLen - Len(msg)), zeros \in BOOLEAN :
       LET data == ChunkOrZeros(n, zeros)
           d  == DigestBlocks("Eager", BlockSize(alg), buffer, data)
           s1 == IF Len(d.calls) >= 1
                 THEN RetailMacUpdateBlocks(cipher, state, d.calls[1])
                 ELSE state
           s2 == IF Len(d.calls) >= 2
                 THEN RetailMacUpdateBlocks(cipher, s1, d.calls[2]) ELSE s1
       IN  /\ ZeroFill(n, zeros, BlockSize(alg))
           /\ state' = s2
           /\ buffer' = d.buf
           /\ msg' = msg \o data
           /\ nenc' = nenc + NumBlocks(d.calls)
           /\ nupdate' = IF nupdate < 2 THEN nupdate + 1 ELSE nupdate
  /\ UNCHANGED <<alg, cipher, cipher_prime, r, pmac_state, lc_size, par,
                 variant, phase, out, ndec, panicked>>
  /\ UNCHANGED hashVars
  /\ UNCHANGED extVars

\* Mac::update of Daa with the next bytes or with zero bytes.
DaaUpdateData ==
  /\ alg = "daa" /\ phase = "active"
  /\ \E n \in 0..(MaxPadLen - Len(msg)), zeros \in BOOLEAN :
       LET data == ChunkOrZeros(n, zeros)
           u    == DaaUpdateCore(cipher, buffer, daa_pos, data)
       IN  /\ ZeroFill(n, zeros, BlockSize(alg))
           /\ buffer' = u.buffer
           /\ daa_pos' = u.pos
           /\ nenc' = nenc + u.enc
           /\ msg' = msg \o data
           /\ nupdate' = IF nupdate < 2 THEN nupdate + 1 ELSE nupdate
  /\ UNCHANGED <<alg, cipher, cipher_prime, state, r, pmac_state, lc_size,
                 par, variant, phase, out, ndec, panicked>>
  /\ UNCHANGED hashVars
  /\ UNCHANGED <<key_size, nreset, opad_key, reader_pos, read_buffer, nread,
                 fn_in, fn_out, ipad_digest, ipad_key, poly1305, compressed>>

\* ------------------------------------------------ RetailMac's KeyInit::new
\* The KeySize of the block ciphers C of 8-byte blocks explored: that of
\* Des, and those of the two- and three-key triple DES.
RetailCipherKeySizes == {8, 16, 24}

\* A caller about to call RetailMac::<C>::new(key) with a key of the
\* declared KeySize, Prod<C::BlockSize, U2>.
InitRetailKeyInit ==
  \E kv \in 1..NumKeys, v \in 1..NumMsgs, ks \in RetailCipherKeySizes :
    /\ alg = "retail"
    /\ cipher = 0
    /\ cipher_prime = 0
    /\ state = << >>
    /\ r = << >>
    /\ pmac_state = << >>
    /\ lc_size = 0
    /\ par = 0
    /\ buffer = << >>
    /\ variant = v
    /\ msg = << >>
    /\ phase = "new"
    /\ out = << >>
    /\ nenc = 0
    /\ ndec = 0
    /\ nupdate = 0
    /\ panicked = FALSE
    /\ hash_bs = 0
    /\ hash_os = 0
    /\ key = [i \in 1..(2 * BlockSize("retail")) |-> KeyByte(kv, i)]
    /\ digest = << >>
    /\ opad_digest = << >>
    /\ customisation = << >>
    /\ reader = << >>
    /\ key_size = ks
    /\ nreset = 0
    /\ opad_key = << >>
    /\ reader_pos = 0
    /\ read_buffer = << >>
    /\ daa_pos = 0
    /\ nread = 0
    /\ fn_in = << >>
    /\ fn_out = << >>
    /\ ipad_digest = << >>
    /\ ipad_key = << >>
    /\ poly1305 = << >>
    /\ compressed = << >>

\* KeyInit::new of RetailMac: Self::new_from_slice(key.as_slice()).unwrap().
RetailMacKeyInitNew ==
  /\ alg = "retail" /\ phase = "new"
  /\ LET n == RetailMacNewFromSlice(key, key_size, BlockSize(alg))
     IN  /\ cipher' = n.cipher
         /\ cipher_prime' = n.cipher_prime
         /\ state' = n.state
         /\ phase' = IF n.ok THEN "active" ELSE "panicked"
         /\ panicked' = ~n.ok
  /\ UNCHANGED <<alg, r, pmac_state, lc_size, par, buffer, variant, msg, out,
                 nenc, ndec, nupdate>>
  /\ UNCHANGED hashVars
  /\ UNCHANGED extVars

\* --------------------------------------------------------------- BLAKE2 MAC
\* Longest message (bytes) passed to a BLAKE2 MAC.
MaxBlake2Len == 9

\* LazyBlockBuffer::new(buf): the buffer holds the bytes of buf, pos = len.
LazyBlockBufferNew(buf) == buf

\* Blake2Mac::new_from_slice(key) over a hash of block size bs: the error,
\* or the buffer of the new instance.
Blake2MacNewFromSlice(k, bs) ==
  IF Len(k) > bs THEN [ok |-> FALSE, buffer |-> << >>]
  ELSE [ok |-> TRUE, buffer |-> LazyBlockBufferNew(k)]

\* Blake2Mac::new_from_slice(key) for a hash of block size 4.
InitBlake2Mac ==
  \E cfg \in HashConfigs, kv \in 1..NumKeys, v \in 1..NumMsgs :
  \E klen \in 0..(cfg[1] + 1) :
    LET k  == [i \in 1..klen |-> KeyByte(kv, i)]
        nf == Blake2MacNewFromSlice(k, cfg[1])
    IN  /\ alg = "blake2"
        /\ NoCipher
        /\ hash_bs = cfg[1]
        /\ hash_os = cfg[2]
        /\ key = k
        /\ digest = << >>
        /\ opad_digest = << >>
        /\ customisation = << >>
        /\ reader = << >>
        /\ buffer = nf.buffer
        /\ variant = v
        /\ msg = << >>
        /\ phase = IF nf.ok THEN "active" ELSE "error"
        /\ out = << >>
        /\ nupdate = 0
        /\ panicked = FALSE
        /\ key_size = 0
        /\ nreset = 0
        /\ opad_key = << >>
        /\ reader_pos = 0
        /\ read_buffer = << >>
        /\ daa_pos = 0
        /\ nread = 0
        /\ fn_in = << >>
        /\ fn_out = << >>
        /\ ipad_digest = << >>
        /\ ipad_key = << >>
        /\ poly1305 = << >>
        /\ compressed = << >>

\* Update::update of Blake2Mac:
\* buffer.digest_blocks(input, |blocks| core.update_blocks(blocks)).
Blake2MacUpdate ==
  /\ alg = "blake2" /\ phase = "active"
  /\ \E n \in 0..(MaxBlake2Len - Len(msg)) :
       LET d == DigestBlocks("Lazy", hash_bs, buffer, Chunk(n))
       IN  /\ digest' = HashUpdateBlocks(digest, Flatten(d.calls))
           /\ compressed' = compressed \o Flatten(d.calls)
           /\ buffer' = d.buf
           /\ msg' = msg \o Chunk(n)
           /\ nupdate' = IF nupdate < 2 THEN nupdate + 1 ELSE nupdate
  /\ UNCHANGED <<alg, variant, phase, out, panicked, hash_bs, hash_os, key,
                 opad_digest, customisation, reader>>
  /\ UNCHANGED <<cipher, cipher_prime, state, r, pmac_state, lc_size, par,
                 nenc, ndec>>
  /\ UNCHANGED <<key_size, nreset, opad_key, reader_pos, read_buffer,
                 daa_pos, nread, fn_in, fn_out, ipad_digest, ipad_key,
                 poly1305>>

\* FixedOutput::finalize_into of Blake2Mac: the core compresses the buffer
\* padded with zeros as the last block; the tag also depends on the number
\* of bytes compressed.
Blake2MacFinalize ==
  /\ alg = "blake2" /\ phase = "active"
  /\ LET last == PadWithZeros(hash_bs, buffer)
         core == HashUpdateBlocks(digest, <<last>>)
     IN  /\ digest' = core
         /\ compressed' = Append(compressed, last)
         /\ out' = HashOut(core \o <<Len(digest) + Len(buffer)>>, hash_os)
  /\ phase' = "done"
  /\ UNCHANGED <<alg, variant, msg, nupdate, panicked, hash_bs, hash_os, key,
                 opad_digest, customisation, reader, buffer>>
  /\ UNCHANGED <<cipher, cipher_prime, state, r, pmac_state, lc_size, par,
                 nenc, ndec>>
  /\ UNCHANGED <<key_size, nreset, opad_key, reader_pos, read_buffer,
                 daa_pos, nread, fn_in, fn_out, ipad_digest, ipad_key,
                 poly1305>>

\* ------------------------------------------- KMAC used after finalize_into
\* Kmac128 / Kmac256 ::new_customization(key, customisation) for an
\* instance that is used again after finalize_into.
InitKmacReuse == InitKmacXof

\* Update::update of Kmac on the instance finalize_into was called on.
KmacUpdateAgain ==
  /\ alg = "kmac" /\ phase = "done"
  /\ \E n \in 0..KmacSpread :
       LET d == DigestBlocks("Eager", hash_bs, buffer, Chunk(n))
           s1 == IF Len(d.calls) >= 1
                 THEN KmacUpdateBlocks(digest, d.calls[1]) ELSE digest
           s2 == IF Len(d.calls) >= 2
                 THEN KmacUpdateBlocks(s1, d.calls[2]) ELSE s1
       IN  /\ digest' = s2
           /\ buffer' = d.buf
           /\ msg' = msg \o Chunk(n)
  /\ phase' = "more"
  /\ UNCHANGED <<alg, variant, out, nupdate, panicked, hash_bs, hash_os, key,
                 opad_digest, customisation, reader>>
  /\ UNCHANGED <<cipher, cipher_prime, state, r, pmac_state, lc_size, par,
                 nenc, ndec>>
  /\ UNCHANGED extVars

\* A second finalize_into(out) on the same instance.
KmacFinalizeIntoAgain ==
  /\ alg = "kmac" /\ phase \in {"done", "more"}
  /\ \E outlen \in KmacOutLens(hash_bs) :
       LET f == KmacFinalizeCore(digest, buffer, hash_bs, outlen)
       IN  /\ digest' = f.digest
           /\ buffer' = f.buffer
           /\ reader' = f.reader
           /\ out' = f.out
  /\ phase' = "again"
  /\ UNCHANGED <<alg, variant, msg, nupdate, panicked, hash_bs, hash_os, key,
                 opad_digest, customisation>>
  /\ UNCHANGED <<cipher, cipher_prime, state, r, pmac_state, lc_size, par,
                 nenc, ndec>>
  /\ UNCHANGED extVars

\* ---------------------------------------------------------------- DAA reset
\* Daa::reset that sets pos to 0 and leaves the buffer as it is.
DaaResetPosOnly(buf, p) == [buffer |-> buf, pos |-> 0]

\* Daa::reset: if self.pos != 0 { pos = 0; buffer = Default::default() }.
DaaReset(buf, p) ==
  IF p # 0 THEN [buffer |-> ZeroBlock(Len(buf)), pos |-> 0]
  ELSE [buffer |-> buf, pos |-> p]

\* Mac::reset of Daa, at any point of a message.
DaaResetCall ==
  /\ alg = "daa" /\ phase = "active"
  /\ nreset < MaxResets
  /\ LET rs == DaaReset(buffer, daa_pos)
     IN  /\ buffer' = rs.buffer
         /\ daa_pos' = rs.pos
  /\ phase' = "reset"
  /\ nreset' = nreset + 1
  /\ UNCHANGED <<alg, cipher, cipher_prime, state, r, pmac_state, lc_size,
                 par, variant, msg, out, nenc, ndec, nupdate, panicked>>
  /\ UNCHANGED hashVars
  /\ UNCHANGED <<key_size, opad_key, reader_pos, read_buffer, nread, fn_in,
                 fn_out, ipad_digest, ipad_key, poly1305, compressed>>

\* Mac::finalize_reset of Daa: the tag of a clone, then reset.
DaaFinalizeReset ==
  /\ alg = "daa" /\ phase = "active"
  /\ nreset < MaxResets
  /\ LET f  == DaaFinalizeCore(cipher, buffer, daa_pos)
         rs == DaaReset(buffer, daa_pos)
     IN  /\ out' = f.out
         /\ nenc' = nenc + f.enc
         /\ buffer' = rs.buffer
         /\ daa_pos' = rs.pos
  /\ phase' = "reset"
  /\ nreset' = nreset + 1
  /\ UNCHANGED <<alg, cipher, cipher_prime, state, r, pmac_state, lc_size,
                 par, variant, msg, ndec, nupdate, panicked>>
  /\ UNCHANGED hashVars
  /\ UNCHANGED <<key_size, opad_key, reader_pos, read_buffer, nread, fn_in,
                 fn_out, ipad_digest, ipad_key, poly1305, compressed>>

\* The caller keeps the tag and passes the next message to the instance
\* that was reset.
DaaNextMessage ==
  /\ alg = "daa" /\ phase = "reset"
  /\ \E v \in 1..NumMsgs : variant' = v
  /\ phase' = "active"
  /\ msg' = << >>
  /\ out' = << >>
  /\ nenc' = 0
  /\ nupdate' = 0
  /\ UNCHANGED <<alg, cipher, cipher_prime, state, r, pmac_state, lc_size,
                 par, buffer, ndec, panicked>>
  /\ UNCHANGED hashVars
  /\ UNCHANGED extVars

\* ---------------------------------------------------------- specifications
vars == <<cipherVars, hashVars, extVars>>

Init == InitCipher

Next ==
  \/ CbcMacUpdate
  \/ CbcMacFinalize
  \/ RetailMacUpdate
  \/ RetailMacFinalize
  \/ CmacUpdate
  \/ CmacFinalize
  \/ PmacUpdate
  \/ PmacFinalize
  \/ BeltMacUpdate
  \/ BeltMacFinalize

Spec == Init /\ [][Next]_vars

\* ------------------------------------------------- reference definitions
\* The i-th block (1-based) of the message m.
MsgBlock(m, bs, i) == SubSeq(m, (i - 1) * bs + 1, i * bs)

\* The CBC chain over the first nb blocks of m under key k:
\* S_0 = 0, S_i = Encrypt(S_(i-1) XOR M_i).
RECURSIVE CbcChain(_, _, _, _)
CbcChain(k, m, bs, nb) ==
  IF nb = 0 THEN ZeroBlock(bs)
  ELSE Encrypt(k, xor(CbcChain(k, m, bs, nb - 1), MsgBlock(m, bs, nb)))

CeilDiv(n, d) == (n + d - 1) \div d

\* Number of blocks before the held-back tail of an n-byte message.
BlocksBeforeTail(n, bs) ==
  IF n > 0 /\ n % bs = 0 THEN n \div bs - 1 ELSE n \div bs

\* The held-back tail of m.
TailOf(m, bs) == SubSeq(m, BlocksBeforeTail(Len(m), bs) * bs + 1, Len(m))

\* tail || 0x80 || zeros
Pad10(tail, bs) == tail \o <<128>> \o ZeroBlock(bs - Len(tail) - 1)

\* The tag a fresh instance of the same MAC and key returns for a single
\* update(msg) followed by finalize.
OneShotTag ==
  LET bs     == BlockSize(alg)
      d      == DigestBlocks(BufferKind(alg), bs, << >>, msg)
      blocks == IF d.calls = << >> THEN << >> ELSE d.calls[1]
  IN  CASE alg = "cbc" ->
             CbcMacFinalizeCore(cipher,
               CbcMacUpdateBlocks(cipher, ZeroBlock(bs), blocks), d.buf).out
        [] alg = "retail" ->
             RetailMacFinalizeCore(cipher, cipher_prime,
               RetailMacUpdateBlocks(cipher, ZeroBlock(bs), blocks), d.buf).out
        [] alg = "cmac" ->
             CmacFinalizeCore(cipher,
               CmacUpdateBlocks(cipher, ZeroBlock(bs), blocks), d.buf).out
        [] alg = "pmac" ->
             PmacFinalizeCore(cipher,
               PmacUpdateBlocks(cipher, PmacInnerInit(cipher, bs, lc_size),
                                lc_size, par, blocks), d.buf).out
        [] alg = "belt" ->
             BeltMacFinalizeCore(cipher,
               BeltMacUpdateBlocks(cipher, ZeroBlock(bs), blocks),
               Encrypt(cipher, ZeroBlock(bs)), d.buf).out

\* ------------------------------------------------------------------ claims
\* C1: for each of the five block-cipher MACs, every key, message and split
\* of the message into update calls, finalize returns the tag of a single
\* update(M) followed by finalize.
C1_ChunkingIndependent ==
  phase = "done" => out = OneShotTag

\* C1 witness: a finalized PMAC message of more than four blocks that was
\* passed in more than one update call.
C1_Witness ==
  /\ phase = "done" /\ alg = "pmac" /\ par = 2 /\ nupdate = 2
  /\ Len(msg) > 4 * BlockSize(alg)

\* The CMAC tag as defined from the message: K1 for a full tail, K2 and
\* 10* padding otherwise.
CmacRef(k, m, bs) ==
  LET n    == Len(m)
      nb   == BlocksBeforeTail(n, bs)
      S    == CbcChain(k, m, bs, nb)
      tail == TailOf(m, bs)
      L    == Encrypt(k, ZeroBlock(bs))
      K1   == dbl(L)
      K2   == dbl(K1)
  IN  IF n > 0 /\ n % bs = 0
      THEN Encrypt(k, xor(xor(S, tail), K1))
      ELSE Encrypt(k, xor(xor(S, Pad10(tail, bs)), K2))

\* C2: CMAC finalize returns Encrypt(state XOR tail XOR K1) for a full tail
\* and Encrypt(state XOR (tail || 0x80 || zeros) XOR K2) otherwise (the empty
\* message included), with exactly one encryption besides the one deriving L
\* and the chain's, and without panicking.
C2_CmacFinalize ==
  (alg = "cmac" /\ phase = "done") =>
    /\ out = CmacRef(cipher, msg, BlockSize(alg))
    /\ nenc = BlocksBeforeTail(Len(msg), BlockSize(alg)) + 2
    /\ ~panicked

\* C2 witness: a finalized CMAC message of exactly two blocks (full tail).
C2_Witness ==
  alg = "cmac" /\ phase = "done" /\ Len(msg) = 2 * BlockSize(alg)

\* offset_k = XOR over j = 1..k of dbl^ntz(j)(L0).
RECURSIVE PmacOffsetRef(_, _)
PmacOffsetRef(L0, k) ==
  IF k = 0 THEN ZeroBlock(Len(L0))
  ELSE xor(PmacOffsetRef(L0, k - 1), DblTimes(L0, trailing_zeros(k)))

\* XOR over j = 1..nb of Encrypt(M_j XOR offset_j).
RECURSIVE PmacTagRef(_, _, _, _)
PmacTagRef(k, m, bs, nb) ==
  IF nb = 0 THEN ZeroBlock(bs)
  ELSE xor(PmacTagRef(k, m, bs, nb - 1),
           Encrypt(k, xor(MsgBlock(m, bs, nb),
                          PmacOffsetRef(Encrypt(k, ZeroBlock(bs)), nb))))

\* The PMAC tag as defined from the message, with no table.
PmacRef(k, m, bs) ==
  LET n    == Len(m)
      nb   == BlocksBeforeTail(n, bs)
      T    == PmacTagRef(k, m, bs, nb)
      tail == TailOf(m, bs)
      L0   == Encrypt(k, ZeroBlock(bs))
  IN  IF n > 0 /\ n % bs = 0
      THEN Encrypt(k, xor(xor(T, tail), inv_dbl(L0)))
      ELSE Encrypt(k, xor(T, Pad10(tail, bs)))

\* C3: for every LC_SIZE >= 1, after k blocks the PMAC offset is the XOR of
\* dbl^ntz(j)(L0) for j = 1..k and the tag the XOR of Encrypt(M_j XOR
\* offset_j), also where ntz(j) >= LC_SIZE; the final tag does not depend on
\* LC_SIZE.
C3_PmacOffsets ==
  (alg = "pmac") =>
    LET bs == BlockSize(alg)
        L0 == Encrypt(cipher, ZeroBlock(bs))
        nb == BlocksBeforeTail(Len(msg), bs)
    IN  /\ pmac_state.counter = nb + 1
        /\ pmac_state.offset = PmacOffsetRef(L0, nb)
        /\ phase = "active" => pmac_state.tag = PmacTagRef(cipher, msg, bs, nb)
        /\ phase = "done" => out = PmacRef(cipher, msg, bs)

\* C3 witness: with LC_SIZE = 1, four blocks absorbed (ntz(4) = 2 >= LC_SIZE).
C3_Witness ==
  alg = "pmac" /\ lc_size = 1 /\ pmac_state.counter = 5 /\ phase = "active"

\* C4: PMAC finalize writes Encrypt(tag XOR tail XOR l_inv) for a full tail
\* and Encrypt(tag XOR (tail || 0x80 || zeros)) otherwise; for the empty
\* message that is Encrypt(0x80 || zeros); finalize does not panic.
C4_PmacFinalize ==
  /\ [][PmacFinalize =>
          LET bs == BlockSize(alg)
              t  == pmac_state.tag
          IN  out' = IF Len(buffer) = bs
                     THEN Encrypt(cipher, xor(xor(t, buffer), pmac_state.l_inv))
                     ELSE Encrypt(cipher, xor(t, Pad10(buffer, bs)))]_vars
  /\ []((alg = "pmac" /\ phase = "done") => ~panicked)
  /\ []((alg = "pmac" /\ phase = "done" /\ msg = << >>) =>
          /\ pmac_state.counter = 1
          /\ out = Encrypt(cipher, Pad10(<< >>, BlockSize(alg))))

\* C4 witness: a finalized PMAC message of exactly two blocks (full tail).
C4_Witness ==
  alg = "pmac" /\ phase = "done" /\ Len(msg) = 2 * BlockSize(alg)

\* The CBC-MAC tag as defined from the message.
CbcMacRef(k, m, bs) ==
  LET n  == Len(m)
      nb == n \div bs
      S  == CbcChain(k, m, bs, nb)
  IN  IF n % bs # 0
      THEN Encrypt(k, xor(S, SubSeq(m, nb * bs + 1, n) \o ZeroBlock(bs - (n % bs))))
      ELSE S

\* C9: CBC-MAC chains every complete block at once; finalize encrypts the
\* zero-padded tail only when pos # 0; an n-byte message costs exactly
\* ceil(n / block_size) encryptions.
C9_CbcMacEncryptions ==
  (alg = "cbc") =>
    LET bs == BlockSize(alg)
        n  == Len(msg)
    IN  /\ phase = "active" =>
             /\ state = CbcChain(cipher, msg, bs, n \div bs)
             /\ nenc = n \div bs
             /\ Len(buffer) = n % bs
        /\ phase = "done" =>
             /\ out = CbcMacRef(cipher, msg, bs)
             /\ nenc = CeilDiv(n, bs)

\* C9 witness: a finalized CBC-MAC message of exactly two blocks.
C9_Witness ==
  alg = "cbc" /\ phase = "done" /\ Len(msg) = 2 * BlockSize(alg)

\* C10: the Retail-MAC tag is Encrypt_K(Decrypt_K'(S)) with S the CBC-MAC
\* state under K; update uses K only; the decryption runs exactly once, at
\* finalize, also for the empty message.
C10_RetailMac ==
  (alg = "retail") =>
    LET bs == BlockSize(alg)
        n  == Len(msg)
    IN  /\ phase = "active" =>
             /\ state = CbcChain(cipher, msg, bs, n \div bs)
             /\ ndec = 0
        /\ phase = "done" =>
             /\ out = Encrypt(cipher,
                        Decrypt(cipher_prime, CbcMacRef(cipher, msg, bs)))
             /\ ndec = 1
             /\ nenc = CeilDiv(n, bs) + 1

\* C10 witness: a finalized Retail-MAC message with a partial tail under two
\* different keys.
C10_Witness ==
  /\ alg = "retail" /\ phase = "done" /\ cipher # cipher_prime
  /\ Len(msg) = BlockSize(alg) + 3

\* ---------------------------------------------------------- HMAC behaviour
NextHmac ==
  \/ HmacUpdate
  \/ HmacFinalize

SpecHmac == InitHmac /\ [][NextHmac]_vars

\* The block-size key K' derived from the key k.
DerKeyRef(k, bs, os) ==
  IF Len(k) <= bs THEN k \o ZeroBlock(bs - Len(k))
  ELSE LET h == HashDigest(k, bs, os)
       IN  IF os <= bs THEN h \o ZeroBlock(bs - os) ELSE SubSeq(h, 1, bs)

\* K' XOR the pad byte c repeated over the block.
PadKeyRef(c) ==
  LET kp == DerKeyRef(key, hash_bs, hash_os)
  IN  [i \in 1..Len(kp) |-> Xor8(kp[i], c)]

\* H(x) for the hash of this instance.
H(x) == HashDigest(x, hash_bs, hash_os)

\* C5: the HMAC tag is H((K' XOR opad) || H((K' XOR ipad) || M)); update
\* feeds bytes only to the inner hash, and finalize absorbs the inner digest
\* into the outer hash from an empty buffer, whatever the inner finalize
\* left in the buffer.
C5_HmacTag ==
  alg = "hmac" =>
    /\ phase = "active" =>
         /\ digest \o buffer = PadKeyRef(IPAD) \o msg
         /\ opad_digest = PadKeyRef(OPAD)
    /\ phase = "done" =>
         out = H(PadKeyRef(OPAD) \o H(PadKeyRef(IPAD) \o msg))

C5_Witness ==
  /\ alg = "hmac" /\ phase = "done"
  /\ nupdate = 2
  /\ Len(msg) > hash_bs
  /\ hash_os > hash_bs
  /\ buffer # << >>

\* C6: get_der_key returns exactly one block and never panics: a key of at
\* most a block is copied and zero-padded, a longer key is hashed and the
\* digest is zero-padded or truncated to a block.
C6_GetDerKey ==
  alg = "hmac" =>
    /\ ~panicked
    /\ Len(DerKeyRef(key, hash_bs, hash_os)) = hash_bs
    /\ phase = "active" =>
         /\ opad_digest = PadKeyRef(OPAD)
         /\ SubSeq(digest, 1, hash_bs) = PadKeyRef(IPAD)
         /\ Len(opad_digest) = hash_bs

C6_Witness ==
  /\ alg = "hmac" /\ phase = "active"
  /\ Len(key) > hash_bs
  /\ hash_os > hash_bs
  /\ ~panicked

\* ---------------------------------------------------------- KMAC behaviour
NextKmac ==
  \/ KmacUpdate
  \/ KmacFinalizeInto

SpecKmac == InitKmac /\ [][NextKmac]_vars

\* The base-256 digits of n, most significant first; one digit for 0.
RECURSIVE BigEndianRef(_)
BigEndianRef(n) ==
  IF n < 256 THEN <<n>> ELSE BigEndianRef(n \div 256) \o <<n % 256>>

\* NIST SP 800-185 left_encode and right_encode.
LeftEncodeRef(n) == <<Len(BigEndianRef(n))>> \o BigEndianRef(n)

RightEncodeRef(n) == BigEndianRef(n) \o <<Len(BigEndianRef(n))>>

\* x followed by the fewest zero bytes that reach a multiple of w.
ZeroPadRef(x, w) == x \o ZeroBlock((w - (Len(x) % w)) % w)

\* The bytes of the cSHAKE prefix for function name "KMAC".
CShakePrefixRef ==
  ZeroPadRef(LeftEncodeRef(hash_bs)
             \o LeftEncodeRef(8 * Len(FUNCTION_NAME)) \o FUNCTION_NAME
             \o LeftEncodeRef(8 * Len(customisation)) \o customisation,
             hash_bs)

\* left_encode(block_size) || left_encode(8 * len(key)) || key
KmacFramingRef ==
  LeftEncodeRef(hash_bs) \o LeftEncodeRef(8 * Len(key)) \o key

\* C7: after the cSHAKE prefix, initialisation absorbs exactly
\* left_encode(block_size) || left_encode(8 * len(key)) || key followed by
\* only the zero bytes needed to reach the next multiple of the block size
\* (none on a block boundary), and the first message byte starts a new block.
C7_KmacFraming ==
  (alg = "kmac" /\ phase = "active") =>
    /\ digest \o buffer
         = CShakePrefixRef \o ZeroPadRef(KmacFramingRef, hash_bs) \o msg
    /\ Len(digest \o buffer) - Len(CShakePrefixRef) - Len(msg)
         = CeilDiv(Len(KmacFramingRef), hash_bs) * hash_bs
    /\ Len(buffer) = Len(msg) % hash_bs

\* What the sponge has absorbed when finalize_into squeezes outlen bytes
\* after this instance's key, customisation and message.
KmacAbsorbedRef(outlen) ==
  LET body == KmacNewCustomization(key, customisation, hash_bs) \o msg
                \o RightEncodeRef(8 * outlen)
      nb   == Len(body) \div hash_bs
  IN  SubSeq(body, 1, nb * hash_bs)
        \o CShakePadTail(hash_bs, SubSeq(body, nb * hash_bs + 1, Len(body)))

\* The first n bytes squeezed from the sponge that absorbed x.
XofStreamRef(x, n) ==
  LET a == HashAcc(x, Len(x)) IN [j \in 1..n |-> XofByte(a, j)]

IsPrefix(s, t) == Len(s) <= Len(t) /\ SubSeq(t, 1, Len(s)) = s

NextRetailNew ==
  \/ RetailMacNew
  \/ RetailMacUpdate
  \/ RetailMacFinalize

SpecRetailNew == InitRetailNew /\ [][NextRetailNew]_vars

\* The two halves of the key: the first floor(len / 2) bytes and the rest.
FirstHalfRef == SubSeq(key, 1, Len(key) \div 2)

SecondHalfRef == SubSeq(key, (Len(key) \div 2) + 1, Len(key))

\* C11: new_from_slice splits the key at len / 2; it returns the error and
\* creates no instance whenever a half is rejected by the cipher, and an
\* instance keyed with the two halves and zero state only when both are
\* accepted, that is exactly when len(key) = 2 * KeySize.
C11_RetailNewFromSlice ==
  (alg = "retail" /\ phase # "new") =>
    /\ (phase = "error")
         <=> (Len(FirstHalfRef) # key_size \/ Len(SecondHalfRef) # key_size)
    /\ (phase = "error") <=> (Len(key) # 2 * key_size)
    /\ phase = "error" =>
         (cipher = 0 /\ cipher_prime = 0 /\ state = << >>)
    /\ phase # "error" =>
         /\ cipher = KeyId(FirstHalfRef)
         /\ cipher_prime = KeyId(SecondHalfRef)
         /\ (nupdate = 0 /\ phase = "active") =>
              state = ZeroBlock(BlockSize(alg))

\* The first half is accepted, the second is one byte too long.
C11_Witness ==
  /\ alg = "retail" /\ phase = "error"
  /\ Len(FirstHalfRef) = key_size
  /\ Len(SecondHalfRef) = key_size + 1

\* ------------------------------------------------------------------- reset
NextReset ==
  \/ CbcMacUpdate
  \/ CbcMacFinalize
  \/ CbcMacFinalizeReset
  \/ RetailMacUpdate
  \/ RetailMacFinalize
  \/ RetailMacFinalizeReset
  \/ CmacUpdate
  \/ CmacFinalize
  \/ CmacFinalizeReset
  \/ PmacUpdate
  \/ PmacFinalize
  \/ PmacFinalizeReset
  \/ BeltMacUpdate
  \/ BeltMacFinalize
  \/ BeltMacFinalizeReset
  \/ NextMessage

SpecReset == InitReset /\ [][NextReset]_vars

\* The core and the buffer are those of a freshly keyed instance.
FreshInstance ==
  LET bs == BlockSize(alg)
  IN  /\ buffer = << >>
      /\ alg # "pmac" => state = ZeroBlock(bs)
      /\ alg = "belt" => r = Encrypt(cipher, ZeroBlock(bs))
      /\ alg = "pmac" =>
           LET L0 == Encrypt(cipher, ZeroBlock(bs))
           IN  /\ pmac_state.tag = ZeroBlock(bs)
               /\ pmac_state.offset = ZeroBlock(bs)
               /\ pmac_state.counter = 1
               /\ pmac_state.l_inv = inv_dbl(L0)
               /\ \A i \in 1..lc_size :
                    pmac_state.l_cache[i] = DblTimes(L0, i - 1)
               /\ pmac_state = PmacInnerInit(cipher, bs, lc_size)

\* C12: finalize_reset returns the tag of the message and leaves the
\* instance as a freshly keyed one (PMAC: tag = 0, offset = 0, counter = 1,
\* l_cache and l_inv unchanged), so the next message gets the tag a fresh
\* instance returns.
C12_FinalizeReset ==
  /\ phase = "reset" => (out = OneShotTag /\ FreshInstance)
  /\ (phase = "active" /\ nupdate = 0) => FreshInstance
  /\ (phase = "done" /\ nreset > 0) => out = OneShotTag

\* A PMAC instance that was reset has tagged another message of more than
\* two blocks, passed in more than one update call.
C12_Witness ==
  /\ alg = "pmac" /\ phase = "done" /\ nreset > 0
  /\ Len(msg) > 2 * BlockSize(alg)
  /\ nupdate = 2

\* --------------------------------------------------------------------- DAA
NextDaa ==
  \/ DaaUpdate
  \/ DaaFinalize

SpecDaa == InitDaa /\ [][NextDaa]_vars

\* CbcMacCore::update_blocks for each compress call of one digest_blocks.
RECURSIVE CbcMacApplyCalls(_, _, _)
CbcMacApplyCalls(k, st, calls) ==
  IF calls = << >> THEN st
  ELSE CbcMacApplyCalls(k, CbcMacUpdateBlocks(k, st, Head(calls)), Tail(calls))

\* The tag of CbcMac over the same cipher and key for update(m[..s]);
\* update(m[s..]); finalize().
CbcMacTwoUpdates(k, m, s) ==
  LET bs  == BlockSize("cbc")
      d1  == DigestBlocks("Eager", bs, << >>, SubSeq(m, 1, s))
      st1 == CbcMacApplyCalls(k, ZeroBlock(bs), d1.calls)
      d2  == DigestBlocks("Eager", bs, d1.buf, SubSeq(m, s + 1, Len(m)))
      st2 == CbcMacApplyCalls(k, st1, d2.calls)
  IN  CbcMacFinalizeCore(k, st2, d2.buf).out

\* C14: for every key and message, however the message is split across
\* update calls on either side, Daa returns the tag of CbcMac over the same
\* cipher.
C14_DaaIsCbcMac ==
  (alg = "daa" /\ phase = "done") =>
    /\ \A s \in 0..Len(msg) : out = CbcMacTwoUpdates(cipher, msg, s)
    /\ out = CbcMacRef(cipher, msg, BlockSize("daa"))

\* A message of two whole blocks, passed to Daa in more than one call.
C14_Witness ==
  /\ alg = "daa" /\ phase = "done"
  /\ Len(msg) = 2 * BlockSize("daa")
  /\ nupdate = 2

\* --------------------------------------------- PMAC update_blocks, directly
NextPmacPar == PmacUpdateBlocksCall

SpecPmacPar == InitPmacPar /\ [][NextPmacPar]_vars

\* Sequential processing of the blocks i..nb of m, one by one:
\* offset ^= L(ntz(counter)); counter += 1; tag ^= Encrypt(block XOR offset),
\* with L(j) = dbl^j(Encrypt(0)).
RECURSIVE PmacSequentialRef(_, _, _, _, _, _, _)
PmacSequentialRef(k, m, bs, i, counter, offset, tag) ==
  IF i > Len(m) \div bs THEN [counter |-> counter, offset |-> offset,
                              tag |-> tag]
  ELSE LET L   == DblTimes(Encrypt(k, ZeroBlock(bs)), trailing_zeros(counter))
           off == xor(offset, L)
       IN  PmacSequentialRef(k, m, bs, i + 1, counter + 1, off,
                             xor(tag, Encrypt(k, xor(MsgBlock(m, bs, i), off))))

\* C13: whatever the parallel width P > 1 and the numbers of blocks passed
\* to the update_blocks calls, tag, offset and counter are those of
\* processing the same blocks one by one.
C13_PmacParallel ==
  (alg = "pmac" /\ buffer = << >> /\ phase = "active") =>
    LET bs  == BlockSize(alg)
        ref == PmacSequentialRef(cipher, msg, bs, 1, 1, ZeroBlock(bs),
                                 ZeroBlock(bs))
    IN  /\ pmac_state.tag = ref.tag
        /\ pmac_state.offset = ref.offset
        /\ pmac_state.counter = ref.counter

\* One call with seven blocks over a backend of width three: two groups
\* through the parallel path and one block alone.
C13_Witness ==
  /\ alg = "pmac" /\ phase = "active" /\ buffer = << >>
  /\ par = 3
  /\ nupdate = 1
  /\ Len(msg) = 7 * BlockSize(alg)

\* -------------------------------------------------------------- SimpleHmac
NextSimpleHmac ==
  \/ SimpleHmacUpdate
  \/ SimpleHmacFinalize

SpecSimpleHmac == InitSimpleHmac /\ [][NextSimpleHmac]_vars

\* The tag of the block-level Hmac over the same hash for
\* new_from_slice(k); update(m); finalize(), the hash's finalize leaving
\* res bytes in the buffer.
HmacOneShot(k, m, bs, os, res) ==
  LET nf == HmacNewFromSlice(k, bs, os)
      d  == DigestBlocks("Eager", bs, << >>, m)
      dg == HmacUpdateBlocks(nf.digest, Flatten(d.calls))
  IN  HmacFinalizeCore(dg, nf.opad_digest, d.buf, bs, os, res).out

\* C15: SimpleHmac returns the tag of the block-level Hmac over the same
\* hash, key and message.
C15_SimpleHmacIsHmac ==
  (alg = "simple_hmac") =>
    /\ ~panicked
    /\ phase = "done" =>
         /\ \A res \in 0..MaxResidue :
              out = HmacOneShot(key, msg, hash_bs, hash_os, res)
         /\ out = H(PadKeyRef(OPAD) \o H(PadKeyRef(IPAD) \o msg))

\* A key and a message longer than a block, the message passed in more
\* than one update call, over a hash whose output is longer than a block.
C15_Witness ==
  /\ alg = "simple_hmac" /\ phase = "done"
  /\ Len(key) > hash_bs
  /\ Len(msg) > hash_bs
  /\ hash_os > hash_bs
  /\ nupdate = 2

\* ------------------------------------------------------- KMAC XOF reader
NextKmacXof ==
  \/ KmacUpdate
  \/ KmacFinalizeXof
  \/ XofRead

SpecKmacXof == InitKmacXof /\ [][NextKmacXof]_vars

NextKmacXofKeys ==
  \/ KmacUpdate
  \/ KmacFinalizeXof

SpecKmacXofKeys == InitKmacXofKeys /\ [][NextKmacXofKeys]_vars

\* What the sponge has absorbed when finalize_xof returns the reader after
\* this instance's key, customisation and message.
KmacXofAbsorbedRef ==
  LET body == KmacNewCustomization(key, customisation, hash_bs) \o msg
                \o RightEncodeRef(0)
      nb   == Len(body) \div hash_bs
  IN  SubSeq(body, 1, nb * hash_bs)
        \o CShakePadTail(hash_bs, SubSeq(body, nb * hash_bs + 1, Len(body)))

\* C16: after finalize_xof the bytes obtained from the reader, however many
\* are read in total and however the reads are split into calls, are the
\* leading bytes of one stream: the first N bytes are the same for every
\* total N + k.
C16_XofPrefixStable ==
  (alg = "kmac" /\ phase = "xof") =>
    /\ out = XofStreamRef(reader, Len(out))
    /\ \A n \in XofReadLens(hash_bs) :
         LET one == ReadBufferRead(reader, hash_bs, 0, << >>, n).data
         IN  IF n <= Len(out) THEN one = SubSeq(out, 1, n)
             ELSE out = SubSeq(one, 1, Len(out))

\* More than a block read in two or more calls, the last of which started
\* inside a block and ended inside the next.
C16_Witness ==
  /\ alg = "kmac" /\ phase = "xof"
  /\ nread = 2
  /\ Len(out) > hash_bs
  /\ reader_pos = 2
  /\ read_buffer # << >>
  /\ Len(msg) > 0

\* The instance's key, customisation and message passed to a new instance
\* in one update call, then finalize_into with an n-byte buffer.
KmacOneShotFixed(n) ==
  LET d == DigestBlocks("Eager", hash_bs, << >>, msg)
      c == Absorb(KmacNewCustomization(key, customisation, hash_bs), d.calls)
  IN  KmacFinalizeCore(c, d.buf, hash_bs, n)

\* The first n bytes a new reader over the sponge input x returns in one
\* read call.
XofFirstBytes(x, n) == ReadBufferRead(x, hash_bs, 0, << >>, n).data

NextEncode ==
  \/ LeftEncodeCall
  \/ RightEncodeCall

SpecEncode == InitEncode /\ [][NextEncode]_vars

\* The base-256 digit of weight 256^e of the u64 v.
U64DigitRef(v, e) ==
  LET limb == v[4 - (e \div 2)]
  IN  IF e % 2 = 1 THEN limb \div 256 ELSE limb % 256

\* v < 256^k
U64FitsRef(v, k) == \A e \in k..7 : U64DigitRef(v, e) = 0

\* The minimum number of bytes that represent v; 1 for zero.
U64MinBytesRef(v) ==
  CHOOSE k \in 1..8 : U64FitsRef(v, k) /\ (k = 1 \/ ~U64FitsRef(v, k - 1))

\* The k value bytes of v, most significant first.
U64ValueBytesRef(v) ==
  LET k == U64MinBytesRef(v) IN [j \in 1..k |-> U64DigitRef(v, k - j)]

\* The u64 below 2^31 as an integer.
U64Small(v) == v[1] = 0 /\ v[2] = 0 /\ v[3] < 32768

U64IntRef(v) == v[3] * 65536 + v[4]

\* C18: left_encode(n) is the byte k followed by the k value bytes and
\* right_encode(n) the k value bytes followed by the byte k, k the minimum
\* number of big-endian bytes of n (1 for 0), both k + 1 long;
\* left_encode(0) = [1, 0], right_encode(0) = [0, 1]; distinct n give
\* distinct encodings.
C18_Encode ==
  (alg = "encode" /\ phase # "call") =>
    LET k == U64MinBytesRef(fn_in)
    IN  /\ k \in 1..8
        /\ Len(fn_out) = k + 1
        /\ phase = "left" =>
             /\ fn_out = <<k>> \o U64ValueBytesRef(fn_in)
             /\ (fn_in = <<0, 0, 0, 0>>) => fn_out = <<1, 0>>
             /\ \A m \in U64Vals \ {fn_in} : U64LeftEncode(m) # fn_out
             /\ U64Small(fn_in) => left_encode(U64IntRef(fn_in)) = fn_out
        /\ phase = "right" =>
             /\ fn_out = U64ValueBytesRef(fn_in) \o <<k>>
             /\ (fn_in = <<0, 0, 0, 0>>) => fn_out = <<0, 1>>
             /\ \A m \in U64Vals \ {fn_in} : U64RightEncode(m) # fn_out
             /\ U64Small(fn_in) => right_encode(U64IntRef(fn_in)) = fn_out

\* A number that needs all eight bytes was encoded.
C18_Witness ==
  /\ alg = "encode" /\ phase = "right"
  /\ fn_in[1] = 65535
  /\ Len(fn_out) = 9

\* ------------------------------------------------- BELT-MAC phi1 / phi2
NextBelt ==
  \/ BeltMacUpdate
  \/ BeltMacFinalize

SpecBelt == InitBelt /\ [][NextBelt]_vars

\* Blocks other than r on which the two forms of phi1 and phi2 are compared.
PhiBlocksRef ==
  {[i \in 1..16 |-> (i * c + d) % 256] : c \in {0, 37, 128}, d \in {0, 255}}

\* The tag of the held-back tail `tail` after the chaining value st, with
\* the word-wise phi1 and phi2 applied to the block u.
BeltTagRef(k, st, u, tail) ==
  IF Len(tail) = Len(st)
  THEN Encrypt(k, xor(xor(st, tail), phi1(u)))
  ELSE Encrypt(k, xor(xor(st, Pad10(tail, Len(st))), phi2(u)))

\* C19: BELT-MAC finalize with r = Encrypt(zero block): a full held-back
\* tail gives Encrypt(state XOR tail XOR phi1(r)), any other tail, the empty
\* one included, Encrypt(state XOR (tail || 0x80 || zeros) XOR phi2(r));
\* the byte-wise code of finalize computes the blocks of the word-wise phi1
\* and phi2.
C19_BeltFinalize ==
  (alg = "belt") =>
    /\ r = Encrypt(cipher, ZeroBlock(16))
    /\ phase = "done" =>
         /\ state = CbcChain(cipher, msg, 16, BlocksBeforeTail(Len(msg), 16))
         /\ out = BeltTagRef(cipher, state, r, TailOf(msg, 16))
    /\ phase = "active" =>
         /\ buffer = TailOf(msg, 16)
         /\ \A u \in PhiBlocksRef \cup {r} :
              BeltMacFinalizeCore(cipher, state, u, buffer).out
                = BeltTagRef(cipher, state, u, buffer)

\* A message of two full blocks was finished: the tail is a full block.
C19_Witness ==
  /\ alg = "belt" /\ phase = "done"
  /\ Len(msg) = 32
  /\ nupdate = 2

\* --------------------------------------------------- Doublable::double
NextDouble == DoubleCall

SpecDouble == InitDouble /\ [][NextDouble]_vars

RECURSIVE Pow2Ref(_)
Pow2Ref(k) == IF k = 0 THEN 1 ELSE 2 * Pow2Ref(k - 1)

\* Bit j (1 = most significant) of the block read as a big-endian integer.
BitRef(B, j) ==
  (B[((j - 1) \div 8) + 1] \div Pow2Ref(7 - ((j - 1) % 8))) % 2

\* Bit j (1 = most significant) of the constant c in a block of nb bits.
ConstBitRef(c, nb, j) ==
  IF nb - j >= 11 THEN 0 ELSE (c \div Pow2Ref(nb - j)) % 2

\* The bits of the doubled block: bit j is bit j + 1 of B (0 for the last),
\* XORed with the constant's bit when the top bit of B was 1.
DoubledBitRef(B, j) ==
  LET nb      == 8 * Len(B)
      c       == CASE Len(B) = 8 -> 27 [] Len(B) = 16 -> 135
                   [] Len(B) = 32 -> 1061
      shifted == IF j < nb THEN BitRef(B, j + 1) ELSE 0
  IN  IF BitRef(B, 1) = 1 THEN (shifted + ConstBitRef(c, nb, j)) % 2
      ELSE shifted

\* C20: for every block of 8, 16 or 32 bytes, double returns the block read
\* as a big-endian integer shifted left by one bit within the block width,
\* carries crossing the 64-bit words, XORed in the lowest-order bits with
\* 0x1B, 0x87 or 0x425 exactly when the bit shifted out was 1.
C20_Double ==
  (alg = "double" /\ phase = "doubled") =>
    /\ Len(fn_out) = Len(fn_in)
    /\ \A j \in 1..(8 * Len(fn_in)) :
         BitRef(fn_out, j) = DoubledBitRef(fn_in, j)
    /\ \A i \in 1..Len(fn_out) : fn_out[i] \in 0..255
    /\ fn_out = dbl(fn_in)

\* A 32-byte block whose top bit is 1 and whose second word carries into
\* the first was doubled.
C20_Witness ==
  /\ alg = "double" /\ phase = "doubled"
  /\ Len(fn_in) = 32
  /\ fn_in[1] = 255
  /\ fn_in[9] = 128
  /\ fn_in[17] = 0

\* ------------------------------------------------- the buffered engines
NextEngines ==
  \/ CbcMacUpdate
  \/ RetailMacUpdate
  \/ CmacUpdate
  \/ PmacUpdate
  \/ BeltMacUpdate
  \/ HmacUpdate
  \/ KmacUpdate

SpecEngines == InitEngines /\ [][NextEngines]_vars

\* The block size of the engine of this state.
EngineBlockSize ==
  IF alg \in {"hmac", "kmac"} THEN hash_bs ELSE BlockSize(alg)

EngineEager == alg \in {"cbc", "retail", "hmac", "kmac"}

\* The message bytes before the buffered ones.
FoldedRef == SubSeq(msg, 1, Len(msg) - Len(buffer))

\* The accumulator of the engine is the one that has folded exactly the
\* blocks of m.
AccumulatorHolds(m) ==
  LET bs == EngineBlockSize
  IN  CASE alg \in {"cbc", "retail", "cmac", "belt"} ->
             state = CbcChain(cipher, m, bs, Len(m) \div bs)
        [] alg = "pmac" ->
             LET ref == PmacSequentialRef(cipher, m, bs, 1, 1, ZeroBlock(bs),
                                          ZeroBlock(bs))
             IN  /\ pmac_state.tag = ref.tag
                 /\ pmac_state.offset = ref.offset
                 /\ pmac_state.counter = ref.counter
        [] alg = "hmac" ->
             digest = HmacNewFromSlice(key, hash_bs, hash_os).digest \o m
        [] alg = "kmac" ->
             digest = KmacNewCustomization(key, customisation, hash_bs) \o m

\* C21: after init and any sequence of update calls, in each of the seven
\* engines 0 <= pos <= block_size, the buffer holds exactly the message
\* bytes not yet folded into the accumulator, and the accumulator has folded
\* every complete block of the message, except that a lazy buffer (CMAC,
\* PMAC, BELT-MAC) holds back the last block of a message that ends on a
\* block boundary.
C21_BufferInvariant ==
  (phase = "active") =>
    LET bs == EngineBlockSize
    IN  /\ Len(buffer) \in 0..bs
        /\ (Len(msg) - Len(buffer)) % bs = 0
        /\ buffer = SubSeq(msg, Len(msg) - Len(buffer) + 1, Len(msg))
        /\ AccumulatorHolds(FoldedRef)
        /\ EngineEager => Len(buffer) = Len(msg) % bs
        /\ ~EngineEager => buffer = TailOf(msg, bs)

\* A lazy engine that received exactly two blocks in more than one call
\* and holds the second one in its buffer.
C21_Witness ==
  /\ alg = "pmac" /\ phase = "active"
  /\ nupdate = 2
  /\ Len(msg) = 16
  /\ Len(buffer) = 8

\* C21 as stated: in every engine every complete block received so far has
\* been folded, so the buffer never holds a complete block.
C21_AllCompleteBlocksFolded ==
  (phase = "active") =>
    LET bs == EngineBlockSize
    IN  /\ Len(buffer) \in 0..bs
        /\ buffer = SubSeq(msg, Len(msg) - Len(buffer) + 1, Len(msg))
        /\ AccumulatorHolds(FoldedRef)
        /\ Len(FoldedRef) = (Len(msg) \div bs) * bs

\* ------------------------------------------------------- Drop (zeroize)
NextDrop ==
  \/ CbcMacUpdate
  \/ RetailMacUpdate
  \/ CmacUpdate
  \/ PmacUpdate
  \/ BeltMacUpdate
  \/ CbcMacFinalize
  \/ RetailMacFinalize
  \/ CmacFinalize
  \/ PmacFinalize
  \/ BeltMacFinalize
  \/ CbcMacDrop
  \/ RetailMacDrop
  \/ CmacDrop
  \/ PmacDrop
  \/ BeltMacDrop

SpecDrop == InitDrop /\ [][NextDrop]_vars

AllZeroRef(B) == \A i \in 1..Len(B) : B[i] = 0

\* C22: with zeroize enabled, a dropped core has its chaining state and
\* derived subkeys overwritten with zeros: state of CBC-MAC, CMAC and
\* Retail-MAC; state and r of BELT-MAC; tag, offset, l_inv and every l_cache
\* entry of PMAC.
C22_ZeroOnDrop ==
  (phase = "dropped") =>
    /\ alg \in {"cbc", "cmac", "retail"} => AllZeroRef(state)
    /\ alg = "belt" => AllZeroRef(state) /\ AllZeroRef(r)
    /\ alg = "pmac" =>
         /\ AllZeroRef(pmac_state.tag)
         /\ AllZeroRef(pmac_state.offset)
         /\ AllZeroRef(pmac_state.l_inv)
         /\ \A i \in 1..Len(pmac_state.l_cache) :
              AllZeroRef(pmac_state.l_cache[i])

\* What the Drop impls do guarantee: everything named except r of BELT-MAC.
C22_ZeroOnDropExceptR ==
  (phase = "dropped") =>
    /\ alg \in {"cbc", "cmac", "retail", "belt"} => AllZeroRef(state)
    /\ alg = "belt" => r = Encrypt(cipher, ZeroBlock(16))
    /\ alg = "pmac" =>
         /\ AllZeroRef(pmac_state.tag)
         /\ AllZeroRef(pmac_state.offset)
         /\ AllZeroRef(pmac_state.l_inv)
         /\ \A i \in 1..Len(pmac_state.l_cache) :
              AllZeroRef(pmac_state.l_cache[i])
\* ------------------------------------------------- the resettable HMACs
NextHmacReset ==
  \/ HmacResetUpdate
  \/ HmacResetFinalize
  \/ HmacResetFinalizeReset
  \/ HmacResetResetCall
  \/ SimpleHmacResetUpdate
  \/ SimpleHmacResetFinalize
  \/ SimpleHmacResetFinalizeReset
  \/ SimpleHmacResetResetCall
  \/ HmacResetNextMessage

SpecHmacReset == InitHmacReset /\ [][NextHmacReset]_vars

\* C23: in the resettable HMACs the outer state and the kept inner
\* snapshot (or the ipad and opad key blocks) always are what the key
\* alone determines; right after reset or finalize_into_reset the inner
\* hash has absorbed the ipad key block and nothing else; and every tag,
\* before and after a reset, is the HMAC of the key and of the message
\* passed since the last reset.
C23_ResetKeepsKeying ==
  (alg \in {"hmac_reset", "simple_hmac_reset"} /\ ~panicked) =>
    /\ (alg = "hmac_reset") =>
         /\ opad_digest = PadKeyRef(OPAD)
         /\ ipad_digest = PadKeyRef(IPAD)
    /\ (alg = "simple_hmac_reset") =>
         /\ opad_key = PadKeyRef(OPAD)
         /\ ipad_key = PadKeyRef(IPAD)
    /\ (phase = "reset") =>
         /\ digest = PadKeyRef(IPAD)
         /\ buffer = << >>
    /\ (out # << >>) =>
         out = H(PadKeyRef(OPAD) \o H(PadKeyRef(IPAD) \o msg))

\* A second message longer than a block, tagged after a first message was
\* tagged by finalize_into_reset.
C23_Witness ==
  /\ alg \in {"hmac_reset", "simple_hmac_reset"} /\ phase = "done"
  /\ nreset = 1
  /\ Len(msg) > hash_bs
  /\ nupdate = 2
  /\ variant = 2
\* ---------------------------------------------------------------- Poly1305
NextPoly ==
  \/ PolyInputCall
  \/ PolyResultCall

SpecPoly == InitPoly /\ [][NextPoly]_vars

\* h after block(false) on each of the first n 16-byte blocks of m in turn.
RECURSIVE PolyBlocksRef(_, _, _)
PolyBlocksRef(rr, m, n) ==
  IF n = 0 THEN <<0, 0, 0, 0, 0>>
  ELSE PolyBlock(rr, PolyBlocksRef(rr, m, n - 1),
                 SubSeq(m, 16 * (n - 1) + 1, 16 * n), FALSE)

\* The instance that has seen the message m in whole blocks only.
PolyAfterRef(k, m) ==
  LET nb == Len(m) \div 16
      lo == Len(m) % 16
  IN  [PolyNew(k) EXCEPT
         !.h = PolyBlocksRef(PolyNew(k).r, m, nb),
         !.leftover = lo,
         !.buffer = [i \in 1..16 |->
                       IF i <= lo THEN m[16 * nb + i] ELSE 0]]

\* C24: however the message is split into input calls, result returns
\* the tag that one input call with the whole message gives, which is the
\* tag of the message taken block by block; after every input call
\* leftover is in 0..15, is the number of message bytes not yet passed to
\* block(), and those bytes are the first bytes of the buffer.
C24_PolySplit ==
  (alg = "poly1305") =>
    /\ poly1305.leftover \in 0..15
    /\ poly1305.leftover = Len(msg) - 16 * nenc
    /\ SubSeq(poly1305.buffer, 1, poly1305.leftover)
         = SubSeq(msg, 16 * nenc + 1, Len(msg))
    /\ poly1305.h = PolyAfterRef(key, msg).h
    /\ (phase = "done") =>
         /\ out = PolyResult(PolyInput(PolyNew(key), msg).poly)
         /\ out = PolyResult(PolyAfterRef(key, msg))

\* A message of two blocks and a byte passed in more than one call, the
\* last call starting inside a block and ending inside the next.
C24_Witness ==
  /\ alg = "poly1305" /\ phase = "done"
  /\ Len(msg) = MaxPolyLen
  /\ nupdate = 2
  /\ nenc = 2
  /\ poly1305.leftover = 1
\* ------------------------------- CBC-MAC, Retail-MAC and DAA on zero bytes
NextZeroPad ==
  \/ CbcMacUpdateData
  \/ CbcMacFinalize
  \/ RetailMacUpdateData
  \/ RetailMacFinalize
  \/ DaaUpdateData
  \/ DaaFinalize

SpecZeroPad == InitZeroPad /\ [][NextZeroPad]_vars

\* The tag of the MAC a over the keys k, k2 for one update(m) and finalize.
PlainTagRef(a, k, k2, m) ==
  LET bs == BlockSize(a)
      d  == DigestBlocks("Eager", bs, << >>, m)
  IN  CASE a = "cbc" ->
             CbcMacFinalizeCore(k,
               CbcMacApplyCalls(k, ZeroBlock(bs), d.calls), d.buf).out
        [] a = "retail" ->
             RetailMacFinalizeCore(k, k2,
               CbcMacApplyCalls(k, ZeroBlock(bs), d.calls), d.buf).out
        [] a = "daa" ->
             LET u == DaaUpdateCore(k, ZeroBlock(bs), 0, m)
             IN  DaaFinalizeCore(k, u.buffer, u.pos).out

\* The last j bytes of m are zero.
EndsInZeros(m, j) ==
  /\ j <= Len(m)
  /\ \A i \in (Len(m) - j + 1)..Len(m) : m[i] = 0

\* C25: for CBC-MAC, Retail-MAC and DAA the tag of a message whose length
\* is not a multiple of the block size is the tag of that message followed
\* by the zero bytes up to the next block boundary, whichever of the two
\* the instance was given.
C25_ZeroPaddingCollides ==
  (alg \in {"cbc", "retail", "daa"} /\ phase = "done") =>
    LET bs == BlockSize(alg)
        n  == Len(msg)
    IN  /\ (n % bs # 0) =>
             out = PlainTagRef(alg, cipher, cipher_prime,
                               msg \o ZeroBlock(bs - (n % bs)))
        /\ \A j \in 1..(bs - 1) :
             (n % bs = 0 /\ EndsInZeros(msg, j)) =>
               out = PlainTagRef(alg, cipher, cipher_prime,
                                 SubSeq(msg, 1, n - j))

\* A Retail-MAC message of two blocks whose last three bytes are zero
\* bytes passed in a call of their own.
C25_Witness ==
  /\ alg = "retail" /\ phase = "done"
  /\ Len(msg) = 2 * BlockSize(alg)
  /\ EndsInZeros(msg, 3)
  /\ msg[Len(msg) - 3] # 0
  /\ nupdate = 2

\* C26: the CBC-MAC tag and the DAA tag of the empty message, after no
\* update or after empty updates only, is the all-zero block whatever the
\* key, and no block was encrypted.
C26_EmptyMessageTag ==
  (alg \in {"cbc", "daa"} /\ phase = "done" /\ msg = << >>) =>
    /\ out = ZeroBlock(BlockSize(alg))
    /\ nenc = 0

\* A Daa instance finalized after empty updates only.
C26_Witness ==
  /\ alg = "daa" /\ phase = "done" /\ msg = << >>
  /\ nupdate = 2
  /\ cipher = NumKeys
\* ------------------------------------------------ RetailMac's KeyInit::new
NextRetailKeyInit ==
  \/ RetailMacKeyInitNew
  \/ RetailMacUpdate
  \/ RetailMacFinalize

SpecRetailKeyInit == InitRetailKeyInit /\ [][NextRetailKeyInit]_vars

\* C28: RetailMac's new(key), given a key of the declared key size of
\* twice the block size of C, never panics: both halves are accepted by C.
C28_NewNeverPanics ==
  (alg = "retail" /\ phase # "new") => ~panicked
\* --------------------------------------------------------------- BLAKE2 MAC
NextBlake2Mac ==
  \/ Blake2MacUpdate
  \/ Blake2MacFinalize

SpecBlake2Mac == InitBlake2Mac /\ [][NextBlake2Mac]_vars

\* The key followed by zero bytes up to a whole block.
KeyBlockRef == key \o ZeroBlock(hash_bs - Len(key))

\* C27: new_from_slice returns the error exactly for a key longer than
\* the block; and a non-empty key shorter than the block fills a whole
\* zero-padded block: the buffer holds that block right after init, and
\* the first block compressed is that block, with no message byte in it.
C27_KeyOwnsFirstBlock ==
  (alg = "blake2") =>
    /\ (phase = "error") <=> (Len(key) > hash_bs)
    /\ (phase # "error" /\ Len(key) \in 1..(hash_bs - 1)) =>
         /\ (msg = << >> /\ phase = "active") => buffer = KeyBlockRef
         /\ (compressed # << >>) => compressed[1] = KeyBlockRef

\* What the code does: the buffer right after init holds the key bytes
\* only, and the first block compressed is the key followed by the first
\* message bytes (or by zero bytes when the message ends before).
C27_KeySharesFirstBlock ==
  (alg = "blake2") =>
    /\ (phase = "error") <=> (Len(key) > hash_bs)
    /\ (phase # "error") =>
         /\ (msg = << >> /\ phase = "active") => buffer = key
         /\ (compressed # << >>) =>
              compressed[1] =
                SubSeq(key \o msg \o ZeroBlock(hash_bs), 1, hash_bs)
\* ------------------------------------------- KMAC used after finalize_into
NextKmacReuse ==
  \/ KmacUpdate
  \/ KmacFinalizeInto
  \/ KmacUpdateAgain
  \/ KmacFinalizeIntoAgain

SpecKmacReuse == InitKmacReuse /\ [][NextKmacReuse]_vars

\* What an instance with this key and customisation has absorbed when it
\* was keyed.
KmacKeyedRef == KmacNewCustomization(key, customisation, hash_bs)

\* What the sponge absorbs for the KMAC of m with an output of outlen
\* bytes after the keying `keyed`.
KmacSpongeInputRef(keyed, m, outlen) ==
  LET body == keyed \o m \o RightEncodeRef(8 * outlen)
      nb   == Len(body) \div hash_bs
  IN  SubSeq(body, 1, nb * hash_bs)
        \o CShakePadTail(hash_bs, SubSeq(body, nb * hash_bs + 1, Len(body)))

\* C29: finalize_into does not re-arm the instance.  When it returns, the
\* core has absorbed right_encode(8 * len(out)) and the sponge padding
\* after the message and the buffer is empty, so core and buffer are not
\* those of an instance that absorbed the key framing and the message
\* only; and what a second finalize_into squeezes, directly or after a
\* further update, is the sponge of an input that is the KMAC input of
\* none of the byte strings passed to update (all of them, or those
\* passed after the first finalize_into), for any output length.
C29_FinalizeDoesNotRearm ==
  (alg = "kmac" /\ phase \in {"done", "again"}) =>
    LET keyed == KmacKeyedRef
    IN  /\ buffer = << >>
        /\ (phase = "done") =>
             /\ digest = KmacSpongeInputRef(keyed, msg, Len(out))
             /\ digest \o buffer # keyed \o msg
        /\ (phase = "again") =>
             /\ out = XofStreamRef(reader, Len(out))
             /\ \A s \in 0..Len(msg), l \in KmacOutLens(hash_bs) :
                  reader # KmacSpongeInputRef(
                             keyed, SubSeq(msg, s + 1, Len(msg)), l)

\* A second finalize_into after a further update, following a first
\* finalize_into of a message longer than a block.
C29_Witness ==
  /\ alg = "kmac" /\ phase = "again"
  /\ Len(msg) > hash_bs + KmacSpread
  /\ Len(out) = KmacOutputSize(hash_bs)
  /\ customisation # << >>
\* ---------------------------------------------------------------- DAA reset
NextDaaReset ==
  \/ DaaUpdate
  \/ DaaFinalize
  \/ DaaResetCall
  \/ DaaFinalizeReset
  \/ DaaNextMessage

SpecDaaReset == InitDaa /\ [][NextDaaReset]_vars

\* The tag of a freshly keyed Daa for one update(m) and finalize.
DaaFreshTagRef(k, m) ==
  LET u == DaaUpdateCore(k, ZeroBlock(BlockSize("daa")), 0, m)
  IN  DaaFinalizeCore(k, u.buffer, u.pos).out

\* C30: pos is always in 0..8; while a message is passed pos = 0 only
\* when no byte was absorbed since init or the last reset, and then the
\* buffer is all zero; right after reset pos = 0 and the buffer is all
\* zero, as in a freshly keyed instance; and every tag, before and after
\* a reset, is the tag a fresh instance returns for the message.
C30_DaaPosAndReset ==
  (alg = "daa") =>
    /\ daa_pos \in 0..BlockSize("daa")
    /\ (phase = "active" /\ daa_pos = 0) =>
         (msg = << >> /\ buffer = ZeroBlock(BlockSize("daa")))
    /\ (phase = "active" /\ msg # << >>) => daa_pos # 0
    /\ (phase = "reset") =>
         (daa_pos = 0 /\ buffer = ZeroBlock(BlockSize("daa")))
    /\ (out # << >>) =>
         /\ out = DaaFreshTagRef(cipher, msg)
         /\ out = CbcMacRef(cipher, msg, BlockSize("daa"))

\* A message of two whole blocks, passed in more than one call and tagged
\* after the instance was reset.
C30_Witness ==
  /\ alg = "daa" /\ phase = "done"
  /\ nreset = 1
  /\ Len(msg) = 2 * BlockSize("daa")
  /\ nupdate = 2
  /\ daa_pos = BlockSize("daa")


=============================================================================
